---- MODULE Spec2Model ----
(***************************************************************************)
(* The collaborative task pipeline of database-erp (views/Tasks.tsx):      *)
(* several browser sessions share one "tasks" table of the backing store.  *)
(* Each session keeps a local copy of the table (React state `tasks`),     *)
(* moves a card optimistically on drop, and reloads the whole table on     *)
(* every change notification.  Every trip to the store is a separate step, *)
(* so that the handlers of all sessions and the store interleave as they   *)
(* do on the event loops and on the network.                               *)
(***************************************************************************)
EXTENDS Integers, Sequences, FiniteSets, TLC

VARIABLES
    store,            \* rows of the tasks table, in created_at order
    nextId,           \* next id the store hands out on insert
    log,              \* history of the writes the store committed
    tasks,            \* tasks[s]: useState<Task[]> of session s
    currentUser,      \* currentUser[s]: useState<string|null>
    loading,          \* loading[s]
    isSaving,         \* isSaving[s]
    draggingTaskId,   \* draggingTaskId[s]: id being dragged, NoTask when null
    mounted,          \* the Tasks component of session s is mounted
    channel,          \* channel[s]: state of the 'tasks-live' subscription
    subs,             \* subs[s]: channels of s that the client holds
    feed,             \* feed[s]: change notifications on their way to s
    fetched,          \* fetched[s]: calls of fetchTasks the change feed has made in s
    loads,            \* loads[s]: calls of fetchTasks in flight
    moves,            \* moves[s]: calls of handleDrop awaiting the update
    dels,             \* dels[s]: calls of deleteTask awaiting the delete
    adds,             \* adds[s]: calls of handleAddTask in flight
    opsLeft,          \* opsLeft[s]: gestures of s that send a request which the run still allows
    faultsLeft,       \* requests the store may still fail in the run
    outcome,          \* what the last step told the user, or why it sent nothing
    app,              \* the useState fields of App: currentView, isConnected, session, profile, loading
    authSession,      \* the user the client's auth holds a session for, NoUser when none
    listeners,        \* callbacks registered with client.auth.onAuthStateChange
    pending,          \* awaits of App in flight: getSession, fetchProfile, signOut
    shellLeft,        \* steps of the shell's environment that the run still allows
    supabaseInstance, \* the module variable of the client: NoClient when null
    created,          \* calls of createClient made so far
    returned          \* what the latest calls of getSupabaseClient returned

boardVars == <<store, nextId, log, tasks, currentUser, loading, isSaving, draggingTaskId,
               mounted, fetched, channel, subs, feed, loads, moves, dels, adds, opsLeft,
               faultsLeft, outcome>>

shellVars == <<app, authSession, listeners, pending, shellLeft>>

clientVars == <<supabaseInstance, created, returned>>

vars == <<store, nextId, log, tasks, currentUser, loading, isSaving, draggingTaskId,
          mounted, fetched, channel, subs, feed, loads, moves, dels, adds, opsLeft, faultsLeft, outcome,
          app, authSession, listeners, pending, shellLeft, supabaseInstance, created, returned>>

-----------------------------------------------------------------------------
(* Bounds of the model *)

MaxOps == 1        \* gestures that send a request (submit, move, delete) in a run
MaxRaceOps == 1    \* moves of each session in a run of the race
MaxFaults == 1     \* requests the store fails in a run
MaxLoads == 2      \* calls of fetchTasks in flight in one session
NumCols == 3       \* columns offered to a drop
NumFormDepts == 1  \* departments offered to the Composer's select
NumPrios == 1      \* priorities offered to the Composer's select
MaxSubmits == 2    \* submissions of the Composer in the run of repeated submissions
MaxAuthEvents == 2 \* auth-state events that come from outside App in a run
MaxLogins == 2     \* sign-ins through the Auth view in a run
MaxShellFaults == 1 \* calls of getSession that throw in a run
MaxPending == 3    \* awaits of App in flight
MaxCalls == 4      \* calls on the client module in a run

-----------------------------------------------------------------------------
(* Constants of the program *)

Sessions == {"s1", "s2"}

\* auth.getUser() of a session: the identity signed in there
Identity(s) == IF s = "s1" THEN "U1" ELSE "U2"

NoUser == "null"
NoTask == 0

\* DEPARTMENTS, in the order of the columns
DEPARTMENTS == <<"planning", "cutting", "stitching", "washing", "finishing">>

\* the five departments and one the board does not know
DepartmentsWithUnknown == {DEPARTMENTS[i] : i \in DOMAIN DEPARTMENTS} \cup {"packing"}

Departments == {DEPARTMENTS[i] : i \in DOMAIN DEPARTMENTS}

\* the options of the priority select, the default first
PRIORITIES == <<"medium", "high", "low">>

Priorities == {PRIORITIES[i] : i \in DOMAIN PRIORITIES}

Min(a, b) == IF a < b THEN a ELSE b

DropColumns == {DEPARTMENTS[i] : i \in 1..Min(NumCols, Len(DEPARTMENTS))}

FormDepartments == {DEPARTMENTS[i] : i \in 1..Min(NumFormDepts, Len(DEPARTMENTS))}

FormPriorities == {PRIORITIES[i] : i \in 1..Min(NumPrios, Len(PRIORITIES))}

FormTitles == {"", "Cut fabric panel A"}

\* newTask is a Partial<Task>: the status a form could carry if it were read
FormStatuses == {"todo", "completed"}

\* the contents the Composer's form can hold at submit
Forms ==
    [title : FormTitles, department : FormDepartments,
     priority : FormPriorities, status : FormStatuses]

-----------------------------------------------------------------------------
(* Helpers on arrays of rows *)

Ids(rows) == {rows[i].id : i \in DOMAIN rows}

\* tasks.find(t => t.id === id): the index of the first match, 0 for undefined
FindIndex(rows, id) ==
    IF \E i \in DOMAIN rows : rows[i].id = id
    THEN CHOOSE i \in DOMAIN rows :
            /\ rows[i].id = id
            /\ \A j \in 1..(i - 1) : rows[j].id # id
    ELSE 0

RemoveAt(seq, k) == [i \in 1..(Len(seq) - 1) |-> IF i < k THEN seq[i] ELSE seq[i + 1]]

-----------------------------------------------------------------------------
(* The backing store (the "tasks" table behind supabase.from('tasks')) *)

\* an update that writes no column
ApplyPatchNothing(row, patch) == row

\* update(patch).eq('id', id): the patch's columns are written, the others kept
ApplyPatch(row, patch) ==
    [f \in DOMAIN row |-> IF f \in DOMAIN patch THEN patch[f] ELSE row[f]]

StoreUpdate(rows, id, patch) ==
    [i \in DOMAIN rows |-> IF rows[i].id = id THEN ApplyPatch(rows[i], patch) ELSE rows[i]]

\* delete().eq('id', id)
StoreDelete(rows, id) == SelectSeq(rows, LAMBDA r : r.id # id)

\* insert([payload]): the store adds the id; created_at orders the new row last
StoreInsert(rows, id, payload) ==
    Append(rows, [id |-> id,
                  title |-> payload.title,
                  department |-> payload.department,
                  priority |-> payload.priority,
                  status |-> payload.status,
                  user_id |-> payload.user_id])

\* select(...).order('created_at', { ascending: true })
StoreSelect(rows) == rows

\* a server that goes on announcing to a channel that was lost
ListenersWithErrored(ch) == {s \in Sessions : ch[s] \in {"joined", "errored"}}

\* the sessions a committed change is announced to: those whose channel joined
Listeners(ch) == {s \in Sessions : ch[s] = "joined"}

Announce(fd, ch, event) ==
    [s \in Sessions |-> IF s \in Listeners(ch) THEN Append(fd[s], event) ELSE fd[s]]

-----------------------------------------------------------------------------
(* The pure parts of the handlers *)

\* a guard that lets every user delete
MayDeleteAnyone(task, user) == TRUE

\* deleteTask: task.user_id !== currentUser rejects
MayDelete(task, user) == task.user_id = user

\* a drop that never takes the early return
SameColumnNever(rows, id, targetDept) == FALSE

\* handleDrop: taskToMove?.department === targetDept (undefined never equals)
SameColumn(rows, id, targetDept) ==
    /\ FindIndex(rows, id) # 0
    /\ rows[FindIndex(rows, id)].department = targetDept

\* an optimistic move that adds the card to the target column and keeps the old one
ApplyMoveDuplicating(rows, id, targetDept) ==
    IF FindIndex(rows, id) = 0 THEN rows
    ELSE Append(rows, [rows[FindIndex(rows, id)] EXCEPT !.department = targetDept])

\* an optimistic move that also starts the task
ApplyMoveInProgress(rows, id, targetDept) ==
    [i \in DOMAIN rows |->
        IF rows[i].id = id
        THEN [rows[i] EXCEPT !.department = targetDept, !.status = "in_progress"]
        ELSE rows[i]]

\* handleDrop: prev.map(t => t.id === draggingTaskId ? {...t, department} : t)
ApplyMove(rows, id, targetDept) ==
    [i \in DOMAIN rows |->
        IF rows[i].id = id THEN [rows[i] EXCEPT !.department = targetDept] ELSE rows[i]]

\* a patch that also advances the status
MovePatchAndStatus(targetDept) == [department |-> targetDept, status |-> "in_progress"]

\* handleDrop: the patch of update({ department: targetDept })
MovePatch(targetDept) == [department |-> targetDept]

\* a payload that takes the status from the form
PayloadFromForm(form, user) ==
    [title |-> form.title,
     department |-> form.department,
     priority |-> form.priority,
     user_id |-> user,
     status |-> form.status]

\* handleAddTask: the payload built from the form and the signed-in user
Payload(form, user) ==
    [title |-> form.title,
     department |-> form.department,
     priority |-> form.priority,
     user_id |-> user,
     status |-> "todo"]

\* a title input without the required attribute
FormValidAlways(form) == TRUE

\* <input required value={newTask.title}>: the browser submits only a filled title
FormValid(form) == form.title # ""

\* a reload that leaves the board as it is
ReconcileKeepLocal(prev, data) == prev

\* a reload that keeps the department the board shows for a row it already has
ReconcileMerge(prev, data) ==
    [i \in DOMAIN data |->
        IF data[i].id \in Ids(prev)
        THEN [data[i] EXCEPT !.department = prev[FindIndex(prev, data[i].id)].department]
        ELSE data[i]]

\* fetchTasks: setTasks(data || [])
Reconcile(prev, data) == data

\* deleteTask: prev.filter(t => t.id !== task.id)
RemoveLocal(rows, id) == SelectSeq(rows, LAMBDA r : r.id # id)

\* a callback that reloads for new rows only
ReloadOnInsertOnly(event) == event = "INSERT"

\* the 'postgres_changes' callback: () => { fetchTasks(); } for event '*'
ReloadOn(event) == TRUE

\* handleDrop: update({ department: targetDept }).eq('id', draggingTaskId) is sent
NewMove(id, targetDept) ==
    [id |-> id, dept |-> targetDept, patch |-> MovePatch(targetDept), phase |-> "sent"]

\* answers that reach the session in the order the calls were made
ArrivesInOrder(ls, k) == ls[k].phase = "resp" /\ k = 1

\* fetchTasks: the awaited select of call k returns; the calls in flight are
\* independent requests, and any answered one may be the next to return
Arrives(ls, k) == ls[k].phase = "resp"

\* fetchTasks() is called: one more load in flight
StartLoad(ls) ==
    Append(ls, [phase |-> "query", data |-> <<>>, err |-> FALSE, at |-> 0, first |-> FALSE])

\* fetchData calls fetchTasks(): the load that the mount waits for
StartFirstLoad(ls) ==
    Append(ls, [phase |-> "query", data |-> <<>>, err |-> FALSE, at |-> 0, first |-> TRUE])

\* the outcome of a step that told the user nothing and skipped nothing
Quiet == ""

-----------------------------------------------------------------------------
(* The boards of all sessions have mounted and finished their first load of *)
(* a store that holds one task of each user.                                *)

\* no client of the store was made yet
NoClient == 0

\* the shell while the board is open: the user is signed in, App has finished
\* checkConnection and shows the view 'tasks'; the client was made once
ShellAtBoard ==
    /\ app = [currentView |-> "tasks", isConnected |-> TRUE, session |-> "U1",
              profile |-> "U1", loading |-> FALSE]
    /\ authSession = "U1"
    /\ listeners = 1
    /\ pending = <<>>
    /\ shellLeft = 0
    /\ supabaseInstance = 1
    /\ created = 1
    /\ returned = <<>>

InitStore ==
    <<[id |-> 1, title |-> "Cut fabric panel A", department |-> "planning",
       priority |-> "medium", status |-> "todo", user_id |-> "U1"],
      [id |-> 2, title |-> "Stitch panel A", department |-> "cutting",
       priority |-> "medium", status |-> "todo", user_id |-> "U2"]>>

Init ==
    /\ store = InitStore
    /\ nextId = Len(InitStore) + 1
    /\ log = <<>>
    /\ tasks = [s \in Sessions |-> StoreSelect(InitStore)]
    /\ currentUser = [s \in Sessions |-> Identity(s)]
    /\ loading = [s \in Sessions |-> FALSE]
    /\ isSaving = [s \in Sessions |-> FALSE]
    /\ draggingTaskId = [s \in Sessions |-> NoTask]
    /\ mounted = [s \in Sessions |-> TRUE]
    /\ channel = [s \in Sessions |-> "joined"]
    /\ subs = [s \in Sessions |-> 1]
    /\ feed = [s \in Sessions |-> <<>>]
    /\ fetched = [s \in Sessions |-> 0]
    /\ loads = [s \in Sessions |-> <<>>]
    /\ moves = [s \in Sessions |-> <<>>]
    /\ dels = [s \in Sessions |-> <<>>]
    /\ adds = [s \in Sessions |-> <<>>]
    /\ opsLeft \in {f \in [Sessions -> 0..MaxOps] : f["s1"] + f["s2"] = MaxOps}
    /\ faultsLeft = MaxFaults
    /\ outcome = Quiet
    /\ ShellAtBoard

-----------------------------------------------------------------------------
(* fetchTasks and the change feed *)

\* fetchTasks up to the store: getUser has returned the session's user
\* (setCurrentUser), the select was sent and the store runs it: it answers with
\* its rows, or with an error
QueryRun(s, k) ==
    /\ k \in DOMAIN loads[s]
    /\ loads[s][k].phase = "query"
    /\ \E fails \in BOOLEAN :
          /\ fails => faultsLeft > 0
          /\ faultsLeft' = IF fails THEN faultsLeft - 1 ELSE faultsLeft
          /\ loads' = [loads EXCEPT ![s][k] =
                          [phase |-> "resp",
                           err |-> fails,
                           data |-> IF fails THEN <<>> ELSE StoreSelect(store),
                           at |-> Len(log),
                           first |-> loads[s][k].first]]
          /\ outcome' = Quiet
    /\ currentUser' = [currentUser EXCEPT ![s] = Identity(s)]
    /\ UNCHANGED <<store, nextId, log, tasks, loading, isSaving, draggingTaskId,
                   mounted, fetched, channel, subs, feed, moves, dels, adds, opsLeft>>
    /\ UNCHANGED <<shellVars, clientVars>>

\* a fetchTasks that sets the rows it got whatever the select returned: none on error
FetchDoneClearsOnError(s, k) ==
    /\ k \in DOMAIN loads[s]
    /\ Arrives(loads[s], k)
    /\ tasks' = [tasks EXCEPT ![s] = Reconcile(@, loads[s][k].data)]
    /\ loads' = [loads EXCEPT ![s] = RemoveAt(@, k)]
    /\ outcome' = Quiet
    /\ UNCHANGED <<store, nextId, log, currentUser, loading, isSaving, draggingTaskId,
                   mounted, fetched, channel, subs, feed, moves, dels, adds, opsLeft, faultsLeft>>
    /\ UNCHANGED <<shellVars, clientVars>>

\* fetchTasks: the select returns; on error nothing is set, else setTasks(data)
FetchDone(s, k) ==
    /\ k \in DOMAIN loads[s]
    /\ Arrives(loads[s], k)
    /\ tasks' = [tasks EXCEPT ![s] =
                    IF loads[s][k].err THEN @ ELSE Reconcile(@, loads[s][k].data)]
    /\ loads' = [loads EXCEPT ![s] = RemoveAt(@, k)]
    /\ outcome' = Quiet
    /\ UNCHANGED <<store, nextId, log, currentUser, loading, isSaving, draggingTaskId,
                   mounted, fetched, channel, subs, feed, moves, dels, adds, opsLeft, faultsLeft>>
    /\ UNCHANGED <<shellVars, clientVars>>

\* a change notification reaches the session: the callback calls fetchTasks()
Notify(s) ==
    /\ channel[s] = "joined"
    /\ feed[s] # <<>>
    /\ Len(loads[s]) < MaxLoads
    /\ feed' = [feed EXCEPT ![s] = Tail(@)]
    /\ loads' = [loads EXCEPT ![s] = IF ReloadOn(Head(feed[s])) THEN StartLoad(@) ELSE @]
    /\ fetched' = [fetched EXCEPT ![s] = IF ReloadOn(Head(feed[s])) THEN @ + 1 ELSE @]
    /\ outcome' = Quiet
    /\ UNCHANGED <<store, nextId, log, tasks, currentUser, loading, isSaving,
                   draggingTaskId, mounted, channel, subs, moves, dels, adds, opsLeft,
                   faultsLeft>>
    /\ UNCHANGED <<shellVars, clientVars>>

-----------------------------------------------------------------------------
(* The drag gesture: handleDragStart, handleDrop *)

\* a rendered card is dragged: setDraggingTaskId(taskId)
DragStart(s, id) ==
    /\ mounted[s]
    /\ ~loading[s]
    /\ id \in Ids(tasks[s])
    /\ draggingTaskId' = [draggingTaskId EXCEPT ![s] = id]
    /\ outcome' = Quiet
    /\ UNCHANGED <<store, nextId, log, tasks, currentUser, loading, isSaving,
                   mounted, fetched, channel, subs, feed, loads, moves, dels, adds, opsLeft, faultsLeft>>
    /\ UNCHANGED <<shellVars, clientVars>>

\* a handleDrop without the early return for no dragged task: it moves the
\* first card of the board
DropMovesWhenIdle(s, targetDept) ==
    /\ mounted[s]
    /\ tasks[s] # <<>>
    /\ opsLeft[s] > 0
    /\ LET id == IF draggingTaskId[s] = NoTask THEN tasks[s][1].id ELSE draggingTaskId[s]
       IN  /\ tasks' = [tasks EXCEPT ![s] = ApplyMove(@, id, targetDept)]
           /\ moves' = [moves EXCEPT ![s] = Append(@, NewMove(id, targetDept))]
    /\ opsLeft' = [opsLeft EXCEPT ![s] = @ - 1]
    /\ outcome' = Quiet
    /\ UNCHANGED <<store, nextId, log, currentUser, loading, isSaving, draggingTaskId,
                   mounted, fetched, channel, subs, feed, loads, dels, adds, faultsLeft>>
    /\ UNCHANGED <<shellVars, clientVars>>

\* a handleDrop whose update also makes the user who dropped the card its owner
DropTakesOwnership(s, targetDept) ==
    /\ mounted[s]
    /\ IF draggingTaskId[s] = NoTask
       THEN /\ outcome' = "idle"
            /\ UNCHANGED <<tasks, moves, opsLeft>>
       ELSE IF SameColumn(tasks[s], draggingTaskId[s], targetDept)
       THEN /\ outcome' = "same"
            /\ UNCHANGED <<tasks, moves, opsLeft>>
       ELSE /\ opsLeft[s] > 0
            /\ tasks' = [tasks EXCEPT ![s] = ApplyMove(@, draggingTaskId[s], targetDept)]
            /\ moves' = [moves EXCEPT ![s] =
                            Append(@, [NewMove(draggingTaskId[s], targetDept) EXCEPT
                                          !.patch = [department |-> targetDept,
                                                     user_id |-> currentUser[s]]])]
            /\ opsLeft' = [opsLeft EXCEPT ![s] = @ - 1]
            /\ outcome' = Quiet
    /\ UNCHANGED <<store, nextId, log, currentUser, loading, isSaving, draggingTaskId,
                   mounted, fetched, channel, subs, feed, loads, dels, adds, faultsLeft>>
    /\ UNCHANGED <<shellVars, clientVars>>

\* a handleDrop that moves only the tasks the user created
DropCreatorOnly(s, targetDept) ==
    /\ mounted[s]
    /\ IF draggingTaskId[s] = NoTask
       THEN /\ outcome' = "idle"
            /\ UNCHANGED <<tasks, moves, opsLeft>>
       ELSE IF SameColumn(tasks[s], draggingTaskId[s], targetDept)
       THEN /\ outcome' = "same"
            /\ UNCHANGED <<tasks, moves, opsLeft>>
       ELSE IF /\ draggingTaskId[s] \in Ids(tasks[s])
               /\ ~MayDelete(tasks[s][FindIndex(tasks[s], draggingTaskId[s])], currentUser[s])
       THEN /\ outcome' = "PermissionError"
            /\ UNCHANGED <<tasks, moves, opsLeft>>
       ELSE /\ opsLeft[s] > 0
            /\ tasks' = [tasks EXCEPT ![s] = ApplyMove(@, draggingTaskId[s], targetDept)]
            /\ moves' = [moves EXCEPT ![s] =
                            Append(@, NewMove(draggingTaskId[s], targetDept))]
            /\ opsLeft' = [opsLeft EXCEPT ![s] = @ - 1]
            /\ outcome' = Quiet
    /\ UNCHANGED <<store, nextId, log, currentUser, loading, isSaving, draggingTaskId,
                   mounted, fetched, channel, subs, feed, loads, dels, adds, faultsLeft>>
    /\ UNCHANGED <<shellVars, clientVars>>

\* handleDrop up to its await: the early returns, else the optimistic move and
\* the update sent to the store
Drop(s, targetDept) ==
    /\ mounted[s]
    /\ IF draggingTaskId[s] = NoTask
       THEN /\ outcome' = "idle"
            /\ UNCHANGED <<tasks, moves, opsLeft>>
       ELSE IF SameColumn(tasks[s], draggingTaskId[s], targetDept)
       THEN /\ outcome' = "same"
            /\ UNCHANGED <<tasks, moves, opsLeft>>
       ELSE /\ opsLeft[s] > 0
            /\ tasks' = [tasks EXCEPT ![s] = ApplyMove(@, draggingTaskId[s], targetDept)]
            /\ moves' = [moves EXCEPT ![s] =
                            Append(@, NewMove(draggingTaskId[s], targetDept))]
            /\ opsLeft' = [opsLeft EXCEPT ![s] = @ - 1]
            /\ outcome' = Quiet
    /\ UNCHANGED <<store, nextId, log, currentUser, loading, isSaving, draggingTaskId,
                   mounted, fetched, channel, subs, feed, loads, dels, adds, faultsLeft>>
    /\ UNCHANGED <<shellVars, clientVars>>

\* an update of another session for the same task is on its way to the store
Racing(s, id) ==
    \E t \in Sessions \ {s} : \E j \in DOMAIN moves[t] :
        moves[t][j].id = id /\ moves[t][j].phase = "sent"

\* a drop persisted with an upsert: a row that is gone is created again
UpdateRunUpsert(s, k) ==
    /\ k \in DOMAIN moves[s]
    /\ moves[s][k].phase = "sent"
    /\ \E fails \in BOOLEAN :
        LET m == moves[s][k]
        IN  /\ fails => faultsLeft > 0
            /\ faultsLeft' = IF fails THEN faultsLeft - 1 ELSE faultsLeft
            /\ store' = IF fails THEN store
                         ELSE IF m.id \in Ids(store) THEN StoreUpdate(store, m.id, m.patch)
                         ELSE Append(store, [id |-> m.id, title |-> "", department |-> m.dept,
                                             priority |-> "medium", status |-> "todo",
                                             user_id |-> Identity(s)])
            /\ feed' = IF fails THEN feed ELSE Announce(feed, channel, "UPDATE")
            /\ log' = IF fails THEN log
                       ELSE Append(log, [op |-> "update", id |-> m.id, s |-> s,
                                         dept |-> m.dept, raced |-> Racing(s, m.id)])
            /\ moves' = [moves EXCEPT ![s][k].phase = IF fails THEN "error" ELSE "ok"]
            /\ outcome' = Quiet
    /\ UNCHANGED <<nextId, tasks, currentUser, loading, isSaving, draggingTaskId,
                   mounted, fetched, channel, subs, loads, dels, adds, opsLeft>>
    /\ UNCHANGED <<shellVars, clientVars>>

\* the store runs the update of a drop: it commits it and announces the change
\* (an update that matches no row changes nothing), or it fails
UpdateRun(s, k) ==
    /\ k \in DOMAIN moves[s]
    /\ moves[s][k].phase = "sent"
    /\ \E fails \in BOOLEAN :
        LET m == moves[s][k]
            hit == ~fails /\ m.id \in Ids(store)
        IN  /\ fails => faultsLeft > 0
            /\ faultsLeft' = IF fails THEN faultsLeft - 1 ELSE faultsLeft
            /\ store' = IF hit THEN StoreUpdate(store, m.id, m.patch) ELSE store
            /\ feed' = IF hit THEN Announce(feed, channel, "UPDATE") ELSE feed
            /\ log' = IF hit
                      THEN Append(log, [op |-> "update", id |-> m.id, s |-> s,
                                        dept |-> m.dept, raced |-> Racing(s, m.id)])
                      ELSE log
            /\ moves' = [moves EXCEPT ![s][k].phase = IF fails THEN "error" ELSE "ok"]
            /\ outcome' = Quiet
    /\ UNCHANGED <<nextId, tasks, currentUser, loading, isSaving, draggingTaskId,
                   mounted, fetched, channel, subs, loads, dels, adds, opsLeft>>
    /\ UNCHANGED <<shellVars, clientVars>>

\* a dragover that is taken for the drop
DragOverDrops(s, targetDept) == Drop(s, targetDept)

\* handleDragOver: e.preventDefault(), which lets the browser offer the column
\* as a place to drop; nothing of the component or the store is touched
DragOver(s, targetDept) ==
    /\ mounted[s]
    /\ outcome' = "droppable"
    /\ UNCHANGED <<store, nextId, log, tasks, currentUser, loading, isSaving, draggingTaskId,
                   mounted, fetched, channel, subs, feed, loads, moves, dels, adds, opsLeft,
                   faultsLeft>>
    /\ UNCHANGED <<shellVars, clientVars>>

\* a handleDrop that puts the card back where the store has it when the update failed
DropDoneRollback(s, k) ==
    /\ k \in DOMAIN moves[s]
    /\ moves[s][k].phase \in {"ok", "error"}
    /\ tasks' = [tasks EXCEPT ![s] =
                    IF moves[s][k].phase = "error" /\ moves[s][k].id \in Ids(store)
                    THEN ApplyMove(@, moves[s][k].id,
                                   store[FindIndex(store, moves[s][k].id)].department)
                    ELSE @]
    /\ draggingTaskId' = [draggingTaskId EXCEPT ![s] = NoTask]
    /\ moves' = [moves EXCEPT ![s] = RemoveAt(@, k)]
    /\ outcome' = Quiet
    /\ UNCHANGED <<store, nextId, log, currentUser, loading, isSaving,
                   mounted, fetched, channel, subs, feed, loads, dels, adds, opsLeft, faultsLeft>>
    /\ UNCHANGED <<shellVars, clientVars>>

\* handleDrop after its await, whatever the update returned: setDraggingTaskId(null)
DropDone(s, k) ==
    /\ k \in DOMAIN moves[s]
    /\ moves[s][k].phase \in {"ok", "error"}
    /\ draggingTaskId' = [draggingTaskId EXCEPT ![s] = NoTask]
    /\ moves' = [moves EXCEPT ![s] = RemoveAt(@, k)]
    /\ outcome' = Quiet
    /\ UNCHANGED <<store, nextId, log, tasks, currentUser, loading, isSaving,
                   mounted, fetched, channel, subs, feed, loads, dels, adds, opsLeft, faultsLeft>>
    /\ UNCHANGED <<shellVars, clientVars>>

-----------------------------------------------------------------------------
(* deleteTask *)

\* deleteTask(task) up to its await, for the task of a rendered card: the alert
\* for another user's task, the confirm dialog, then the delete sent to the store
DeleteTask(s, i, confirmed) ==
    /\ mounted[s]
    /\ ~loading[s]
    /\ i \in DOMAIN tasks[s]
    /\ LET task == tasks[s][i]
       IN  IF ~MayDelete(task, currentUser[s])
           THEN /\ outcome' = "PermissionError"
                /\ UNCHANGED <<dels, opsLeft>>
           ELSE IF ~confirmed
           THEN /\ outcome' = "cancelled"
                /\ UNCHANGED <<dels, opsLeft>>
           ELSE /\ opsLeft[s] > 0
                /\ dels' = [dels EXCEPT ![s] = Append(@, [id |-> task.id, phase |-> "sent"])]
                /\ opsLeft' = [opsLeft EXCEPT ![s] = @ - 1]
                /\ outcome' = Quiet
    /\ UNCHANGED <<store, nextId, log, tasks, currentUser, loading, isSaving,
                   draggingTaskId, mounted, fetched, channel, subs, feed, loads, moves, adds, faultsLeft>>
    /\ UNCHANGED <<shellVars, clientVars>>

\* the store runs the delete: it removes the row and announces the change (a
\* delete that matches no row changes nothing), or it fails
DeleteRun(s, k) ==
    /\ k \in DOMAIN dels[s]
    /\ dels[s][k].phase = "sent"
    /\ \E fails \in BOOLEAN :
        LET d == dels[s][k]
            hit == ~fails /\ d.id \in Ids(store)
        IN  /\ fails => faultsLeft > 0
            /\ faultsLeft' = IF fails THEN faultsLeft - 1 ELSE faultsLeft
            /\ store' = IF hit THEN StoreDelete(store, d.id) ELSE store
            /\ feed' = IF hit THEN Announce(feed, channel, "DELETE") ELSE feed
            /\ log' = IF hit
                      THEN Append(log, [op |-> "delete", id |-> d.id, s |-> s,
                                        dept |-> "", raced |-> FALSE])
                      ELSE log
            /\ dels' = [dels EXCEPT ![s][k].phase = IF fails THEN "error" ELSE "ok"]
            /\ outcome' = Quiet
    /\ UNCHANGED <<nextId, tasks, currentUser, loading, isSaving, draggingTaskId,
                   mounted, fetched, channel, subs, loads, moves, adds, opsLeft>>
    /\ UNCHANGED <<shellVars, clientVars>>

\* deleteTask after its await: the result is not read; the card is filtered out
DeleteDone(s, k) ==
    /\ k \in DOMAIN dels[s]
    /\ dels[s][k].phase \in {"ok", "error"}
    /\ tasks' = [tasks EXCEPT ![s] = RemoveLocal(@, dels[s][k].id)]
    /\ dels' = [dels EXCEPT ![s] = RemoveAt(@, k)]
    /\ outcome' = Quiet
    /\ UNCHANGED <<store, nextId, log, currentUser, loading, isSaving, draggingTaskId,
                   mounted, fetched, channel, subs, feed, loads, moves, adds, opsLeft, faultsLeft>>
    /\ UNCHANGED <<shellVars, clientVars>>

-----------------------------------------------------------------------------
(* The Composer: the form and handleAddTask *)

\* a Commit button that is not disabled while a submission is in flight
SubmitWhileSaving(s, form) ==
    /\ mounted[s]
    /\ IF ~FormValid(form)
       THEN /\ outcome' = "ValidationError"
            /\ UNCHANGED <<isSaving, adds, opsLeft>>
       ELSE /\ opsLeft[s] > 0
            /\ isSaving' = [isSaving EXCEPT ![s] = TRUE]
            /\ adds' = [adds EXCEPT ![s] = Append(@, [phase |-> "sent", form |-> form])]
            /\ opsLeft' = [opsLeft EXCEPT ![s] = @ - 1]
            /\ outcome' = Quiet
    /\ UNCHANGED <<store, nextId, log, tasks, currentUser, loading, draggingTaskId,
                   mounted, fetched, channel, subs, feed, loads, moves, dels, faultsLeft>>
    /\ UNCHANGED <<shellVars, clientVars>>

\* the Commit button (disabled while isSaving) submits the form: the browser
\* refuses a form whose required title is empty, else handleAddTask starts:
\* setIsSaving(true) and auth.getUser() is awaited
Submit(s, form) ==
    /\ mounted[s]
    /\ ~isSaving[s]
    /\ IF ~FormValid(form)
       THEN /\ outcome' = "ValidationError"
            /\ UNCHANGED <<isSaving, adds, opsLeft>>
       ELSE /\ opsLeft[s] > 0
            /\ isSaving' = [isSaving EXCEPT ![s] = TRUE]
            /\ adds' = [adds EXCEPT ![s] = Append(@, [phase |-> "sent", form |-> form])]
            /\ opsLeft' = [opsLeft EXCEPT ![s] = @ - 1]
            /\ outcome' = Quiet
    /\ UNCHANGED <<store, nextId, log, tasks, currentUser, loading, draggingTaskId,
                   mounted, fetched, channel, subs, feed, loads, moves, dels, faultsLeft>>
    /\ UNCHANGED <<shellVars, clientVars>>

\* handleAddTask up to the store: getUser has returned the session's user, the
\* payload was built and sent, and the store runs the insert: it commits the
\* row and announces the change, or it fails
InsertRun(s, k) ==
    /\ k \in DOMAIN adds[s]
    /\ adds[s][k].phase = "sent"
    /\ \E fails \in BOOLEAN :
        LET payload == Payload(adds[s][k].form, Identity(s))
        IN  /\ fails => faultsLeft > 0
            /\ faultsLeft' = IF fails THEN faultsLeft - 1 ELSE faultsLeft
            /\ store' = IF fails THEN store ELSE StoreInsert(store, nextId, payload)
            /\ nextId' = IF fails THEN nextId ELSE nextId + 1
            /\ feed' = IF fails THEN feed ELSE Announce(feed, channel, "INSERT")
            /\ log' = IF fails THEN log
                      ELSE Append(log, [op |-> "insert", id |-> nextId, s |-> s,
                                        dept |-> payload.department, raced |-> FALSE])
            /\ adds' = [adds EXCEPT ![s][k].phase = IF fails THEN "error" ELSE "ok"]
            /\ outcome' = Quiet
    /\ UNCHANGED <<tasks, currentUser, loading, isSaving, draggingTaskId,
                   mounted, fetched, channel, subs, loads, moves, dels, opsLeft>>
    /\ UNCHANGED <<shellVars, clientVars>>

\* a handleAddTask that leaves the reload to the change feed
AddDoneNoReload(s, k) ==
    /\ k \in DOMAIN adds[s]
    /\ adds[s][k].phase \in {"ok", "error"}
    /\ isSaving' = [isSaving EXCEPT ![s] = FALSE]
    /\ adds' = [adds EXCEPT ![s] = RemoveAt(@, k)]
    /\ outcome' = IF adds[s][k].phase = "ok" THEN Quiet ELSE "PersistenceError"
    /\ UNCHANGED <<store, nextId, log, tasks, currentUser, loading, draggingTaskId,
                   mounted, fetched, channel, subs, feed, loads, moves, dels, opsLeft,
                   faultsLeft>>
    /\ UNCHANGED <<shellVars, clientVars>>

\* a handleAddTask that reloads in its finally block, whatever the insert returned
AddDoneReloadAlways(s, k) ==
    /\ k \in DOMAIN adds[s]
    /\ adds[s][k].phase \in {"ok", "error"}
    /\ Len(loads[s]) < MaxLoads
    /\ loads' = [loads EXCEPT ![s] = StartLoad(@)]
    /\ isSaving' = [isSaving EXCEPT ![s] = FALSE]
    /\ adds' = [adds EXCEPT ![s] = RemoveAt(@, k)]
    /\ outcome' = IF adds[s][k].phase = "ok" THEN Quiet ELSE "PersistenceError"
    /\ UNCHANGED <<store, nextId, log, tasks, currentUser, loading, draggingTaskId,
                   mounted, fetched, channel, subs, feed, moves, dels, opsLeft, faultsLeft>>
    /\ UNCHANGED <<shellVars, clientVars>>

\* handleAddTask after the insert: on success the form is reset and fetchTasks()
\* is called, on error alert(e.message); finally setIsSaving(false)
AddDone(s, k) ==
    /\ k \in DOMAIN adds[s]
    /\ adds[s][k].phase \in {"ok", "error"}
    /\ IF adds[s][k].phase = "ok"
       THEN /\ Len(loads[s]) < MaxLoads
            /\ loads' = [loads EXCEPT ![s] = StartLoad(@)]
       ELSE UNCHANGED loads
    /\ isSaving' = [isSaving EXCEPT ![s] = FALSE]
    /\ adds' = [adds EXCEPT ![s] = RemoveAt(@, k)]
    /\ outcome' = IF adds[s][k].phase = "ok" THEN Quiet ELSE "PersistenceError"
    /\ UNCHANGED <<store, nextId, log, tasks, currentUser, loading, draggingTaskId,
                   mounted, fetched, channel, subs, feed, moves, dels, opsLeft, faultsLeft>>
    /\ UNCHANGED <<shellVars, clientVars>>

-----------------------------------------------------------------------------
(* The life of the component: the useEffect of Tasks and its cleanup *)

\* Tasks is rendered anew: the state is the useState defaults, and the effect
\* calls fetchData() (setLoading(true), fetchTasks()) and subscribes a new
\* 'tasks-live' channel
Mount(s) ==
    /\ ~mounted[s]
    /\ mounted' = [mounted EXCEPT ![s] = TRUE]
    /\ tasks' = [tasks EXCEPT ![s] = <<>>]
    /\ currentUser' = [currentUser EXCEPT ![s] = NoUser]
    /\ loading' = [loading EXCEPT ![s] = TRUE]
    /\ isSaving' = [isSaving EXCEPT ![s] = FALSE]
    /\ draggingTaskId' = [draggingTaskId EXCEPT ![s] = NoTask]
    /\ loads' = [loads EXCEPT ![s] = StartFirstLoad(@)]
    /\ channel' = [channel EXCEPT ![s] = "joining"]
    /\ subs' = [subs EXCEPT ![s] = @ + 1]
    /\ outcome' = Quiet
    /\ UNCHANGED <<store, nextId, log, fetched, feed, moves, dels, adds, opsLeft, faultsLeft>>
    /\ UNCHANGED <<shellVars, clientVars>>

\* the server acknowledges subscribe(): changes committed from now on are
\* announced to the channel
Join(s) ==
    /\ channel[s] = "joining"
    /\ channel' = [channel EXCEPT ![s] = "joined"]
    /\ outcome' = Quiet
    /\ UNCHANGED <<store, nextId, log, tasks, currentUser, loading, isSaving, draggingTaskId,
                   mounted, fetched, subs, feed, loads, moves, dels, adds, opsLeft, faultsLeft>>
    /\ UNCHANGED <<shellVars, clientVars>>

\* fetchData after Promise.all: the fetchTasks it called has returned;
\* finally setLoading(false)
FetchDataDone(s) ==
    /\ mounted[s]
    /\ loading[s]
    /\ \A k \in DOMAIN loads[s] : ~loads[s][k].first
    /\ loading' = [loading EXCEPT ![s] = FALSE]
    /\ outcome' = Quiet
    /\ UNCHANGED <<store, nextId, log, tasks, currentUser, isSaving, draggingTaskId,
                   mounted, fetched, channel, subs, feed, loads, moves, dels, adds, opsLeft,
                   faultsLeft>>
    /\ UNCHANGED <<shellVars, clientVars>>

\* the channel is lost (the connection drops, the server closes it or the
\* join times out): subscribe() was given no status callback and the effect
\* runs once, so the component does not learn of it and calls subscribe()
\* no more; what was on its way to the session is lost
Disconnect(s) ==
    /\ mounted[s]
    /\ channel[s] = "joined"
    /\ channel' = [channel EXCEPT ![s] = "errored"]
    /\ feed' = [feed EXCEPT ![s] = <<>>]
    /\ outcome' = Quiet
    /\ UNCHANGED <<store, nextId, log, tasks, currentUser, loading, isSaving, draggingTaskId,
                   mounted, fetched, subs, loads, moves, dels, adds, opsLeft, faultsLeft>>
    /\ UNCHANGED <<shellVars, clientVars>>

\* a cleanup that leaves the channel with the client
UnmountKeepChannel(s) ==
    /\ mounted[s]
    /\ moves[s] = <<>> /\ dels[s] = <<>> /\ adds[s] = <<>>
    /\ mounted' = [mounted EXCEPT ![s] = FALSE]
    /\ loads' = [loads EXCEPT ![s] = <<>>]
    /\ tasks' = [tasks EXCEPT ![s] = <<>>]
    /\ currentUser' = [currentUser EXCEPT ![s] = NoUser]
    /\ loading' = [loading EXCEPT ![s] = TRUE]
    /\ isSaving' = [isSaving EXCEPT ![s] = FALSE]
    /\ draggingTaskId' = [draggingTaskId EXCEPT ![s] = NoTask]
    /\ outcome' = Quiet
    /\ UNCHANGED <<store, nextId, log, fetched, channel, subs, feed, moves, dels, adds,
                   opsLeft, faultsLeft>>
    /\ UNCHANGED <<shellVars, clientVars>>

\* Tasks is removed while none of its gestures awaits the store: the cleanup
\* calls removeChannel(channel), so the client drops the channel and hands
\* its callback nothing more; the state of the component is gone, and what
\* the fetchTasks calls in flight return sets nothing
Unmount(s) ==
    /\ mounted[s]
    /\ moves[s] = <<>> /\ dels[s] = <<>> /\ adds[s] = <<>>
    /\ mounted' = [mounted EXCEPT ![s] = FALSE]
    /\ channel' = [channel EXCEPT ![s] = "closed"]
    /\ subs' = [subs EXCEPT ![s] = @ - 1]
    /\ feed' = [feed EXCEPT ![s] = <<>>]
    /\ loads' = [loads EXCEPT ![s] = <<>>]
    /\ tasks' = [tasks EXCEPT ![s] = <<>>]
    /\ currentUser' = [currentUser EXCEPT ![s] = NoUser]
    /\ loading' = [loading EXCEPT ![s] = TRUE]
    /\ isSaving' = [isSaving EXCEPT ![s] = FALSE]
    /\ draggingTaskId' = [draggingTaskId EXCEPT ![s] = NoTask]
    /\ outcome' = Quiet
    /\ UNCHANGED <<store, nextId, log, fetched, moves, dels, adds, opsLeft, faultsLeft>>
    /\ UNCHANGED <<shellVars, clientVars>>

-----------------------------------------------------------------------------
(* Any one gesture of any session, and the store may fail a request *)

Next ==
    \/ \E s \in Sessions, k \in 1..MaxLoads : QueryRun(s, k)
    \/ \E s \in Sessions, k \in 1..MaxLoads : FetchDone(s, k)
    \/ \E s \in Sessions : Notify(s)
    \/ \E s \in Sessions, id \in 1..(nextId - 1) : DragStart(s, id)
    \/ \E s \in Sessions, d \in DropColumns : DragOver(s, d)
    \/ \E s \in Sessions, d \in DropColumns : Drop(s, d)
    \/ \E s \in Sessions : \E k \in DOMAIN moves[s] : UpdateRun(s, k)
    \/ \E s \in Sessions : \E k \in DOMAIN moves[s] : DropDone(s, k)
    \/ \E s \in Sessions, i \in 1..(nextId - 1), c \in BOOLEAN : DeleteTask(s, i, c)
    \/ \E s \in Sessions : \E k \in DOMAIN dels[s] : DeleteRun(s, k)
    \/ \E s \in Sessions : \E k \in DOMAIN dels[s] : DeleteDone(s, k)
    \/ \E s \in Sessions, f \in Forms : Submit(s, f)
    \/ \E s \in Sessions : \E k \in DOMAIN adds[s] : InsertRun(s, k)
    \/ \E s \in Sessions : \E k \in DOMAIN adds[s] : AddDone(s, k)

Spec == Init /\ [][Next]_vars

\* the event loop runs a callback that is ready: a notification that arrived
\* is handed to the callback, a select that was sent is answered, and an
\* answer that arrived is handled
SpecLive ==
    /\ Spec
    /\ \A s \in Sessions :
          /\ WF_vars(Notify(s))
          /\ \A k \in 1..MaxLoads : WF_vars(QueryRun(s, k)) /\ WF_vars(FetchDone(s, k))

-----------------------------------------------------------------------------
(* The race of two moves: the store holds one task, each session drags and  *)
(* drops it, and no request fails.                                          *)

InitRace ==
    /\ store = <<InitStore[1]>>
    /\ nextId = 2
    /\ log = <<>>
    /\ tasks = [s \in Sessions |-> StoreSelect(store)]
    /\ currentUser = [s \in Sessions |-> Identity(s)]
    /\ loading = [s \in Sessions |-> FALSE]
    /\ isSaving = [s \in Sessions |-> FALSE]
    /\ draggingTaskId = [s \in Sessions |-> NoTask]
    /\ mounted = [s \in Sessions |-> TRUE]
    /\ channel = [s \in Sessions |-> "joined"]
    /\ subs = [s \in Sessions |-> 1]
    /\ feed = [s \in Sessions |-> <<>>]
    /\ fetched = [s \in Sessions |-> 0]
    /\ loads = [s \in Sessions |-> <<>>]
    /\ moves = [s \in Sessions |-> <<>>]
    /\ dels = [s \in Sessions |-> <<>>]
    /\ adds = [s \in Sessions |-> <<>>]
    /\ opsLeft = [s \in Sessions |-> MaxRaceOps]
    /\ faultsLeft = 0
    /\ outcome = Quiet
    /\ ShellAtBoard

NextRace ==
    \/ \E s \in Sessions, k \in 1..MaxLoads : QueryRun(s, k)
    \/ \E s \in Sessions, k \in 1..MaxLoads : FetchDone(s, k)
    \/ \E s \in Sessions : Notify(s)
    \/ \E s \in Sessions, id \in 1..(nextId - 1) : DragStart(s, id)
    \/ \E s \in Sessions, d \in DropColumns : Drop(s, d)
    \/ \E s \in Sessions : \E k \in DOMAIN moves[s] : UpdateRun(s, k)
    \/ \E s \in Sessions : \E k \in DOMAIN moves[s] : DropDone(s, k)

SpecRace == InitRace /\ [][NextRace]_vars

-----------------------------------------------------------------------------
(* A move against a reload: s1 drags and drops while s2 composes a task,    *)
(* and no request fails.                                                    *)

InitRevert ==
    /\ store = InitStore
    /\ nextId = Len(InitStore) + 1
    /\ log = <<>>
    /\ tasks = [s \in Sessions |-> StoreSelect(store)]
    /\ currentUser = [s \in Sessions |-> Identity(s)]
    /\ loading = [s \in Sessions |-> FALSE]
    /\ isSaving = [s \in Sessions |-> FALSE]
    /\ draggingTaskId = [s \in Sessions |-> NoTask]
    /\ mounted = [s \in Sessions |-> TRUE]
    /\ channel = [s \in Sessions |-> "joined"]
    /\ subs = [s \in Sessions |-> 1]
    /\ feed = [s \in Sessions |-> <<>>]
    /\ fetched = [s \in Sessions |-> 0]
    /\ loads = [s \in Sessions |-> <<>>]
    /\ moves = [s \in Sessions |-> <<>>]
    /\ dels = [s \in Sessions |-> <<>>]
    /\ adds = [s \in Sessions |-> <<>>]
    /\ opsLeft = [s \in Sessions |-> MaxRaceOps]
    /\ faultsLeft = 0
    /\ outcome = Quiet
    /\ ShellAtBoard

NextRevert ==
    \/ \E s \in Sessions, k \in 1..MaxLoads : QueryRun(s, k)
    \/ \E s \in Sessions, k \in 1..MaxLoads : FetchDone(s, k)
    \/ \E s \in Sessions : Notify(s)
    \/ \E id \in 1..(nextId - 1) : DragStart("s1", id)
    \/ \E d \in DropColumns : Drop("s1", d)
    \/ \E k \in DOMAIN moves["s1"] : UpdateRun("s1", k)
    \/ \E k \in DOMAIN moves["s1"] : DropDone("s1", k)
    \/ \E f \in Forms : Submit("s2", f)
    \/ \E k \in DOMAIN adds["s2"] : InsertRun("s2", k)
    \/ \E k \in DOMAIN adds["s2"] : AddDone("s2", k)

SpecRevert == InitRevert /\ [][NextRevert]_vars

-----------------------------------------------------------------------------
(* A move against a delete: s1 may delete a task it created while s2 drags  *)
(* and drops, and no request fails.                                         *)

NextGone ==
    \/ \E s \in Sessions, k \in 1..MaxLoads : QueryRun(s, k)
    \/ \E s \in Sessions, k \in 1..MaxLoads : FetchDone(s, k)
    \/ \E s \in Sessions : Notify(s)
    \/ \E id \in 1..(nextId - 1) : DragStart("s2", id)
    \/ \E d \in DropColumns : Drop("s2", d)
    \/ \E k \in DOMAIN moves["s2"] : UpdateRun("s2", k)
    \/ \E k \in DOMAIN moves["s2"] : DropDone("s2", k)
    \/ \E i \in 1..(nextId - 1), c \in BOOLEAN : DeleteTask("s1", i, c)
    \/ \E k \in DOMAIN dels["s1"] : DeleteRun("s1", k)
    \/ \E k \in DOMAIN dels["s1"] : DeleteDone("s1", k)

SpecGone == InitRevert /\ [][NextGone]_vars

-----------------------------------------------------------------------------
(* The board of s1 is closed and opened again while s2 composes a task, and *)
(* no request fails.                                                        *)

NextMount ==
    \/ \E s \in Sessions, k \in 1..MaxLoads : QueryRun(s, k)
    \/ \E s \in Sessions, k \in 1..MaxLoads : FetchDone(s, k)
    \/ \E s \in Sessions : Notify(s)
    \/ Unmount("s1")
    \/ Mount("s1")
    \/ Join("s1")
    \/ FetchDataDone("s1")
    \/ \E f \in Forms : Submit("s2", f)
    \/ \E k \in DOMAIN adds["s2"] : InsertRun("s2", k)
    \/ \E k \in DOMAIN adds["s2"] : AddDone("s2", k)

SpecMount == InitRevert /\ [][NextMount]_vars

-----------------------------------------------------------------------------
(* One session at work: s1 drags a card to any of the five columns or       *)
(* composes a task with any department and priority the selects offer; s2   *)
(* only watches, and no request fails.                                      *)

\* the contents the form can hold with every option of the two selects
AllForms ==
    [title : FormTitles, department : Departments,
     priority : Priorities, status : FormStatuses]

NextSolo ==
    \/ \E s \in Sessions, k \in 1..MaxLoads : QueryRun(s, k)
    \/ \E s \in Sessions, k \in 1..MaxLoads : FetchDone(s, k)
    \/ \E s \in Sessions : Notify(s)
    \/ \E id \in 1..(nextId - 1) : DragStart("s1", id)
    \/ \E d \in Departments : DragOver("s1", d)
    \/ \E d \in Departments : Drop("s1", d)
    \/ \E k \in DOMAIN moves["s1"] : UpdateRun("s1", k)
    \/ \E k \in DOMAIN moves["s1"] : DropDone("s1", k)
    \/ \E f \in AllForms : Submit("s1", f)
    \/ \E k \in DOMAIN adds["s1"] : InsertRun("s1", k)
    \/ \E k \in DOMAIN adds["s1"] : AddDone("s1", k)

SpecSolo == InitRevert /\ [][NextSolo]_vars

-----------------------------------------------------------------------------
(* The feed of s1 may be lost while s2 drags and drops and s1 composes a    *)
(* task, and no request fails.                                              *)

NextCut ==
    \/ \E s \in Sessions, k \in 1..MaxLoads : QueryRun(s, k)
    \/ \E s \in Sessions, k \in 1..MaxLoads : FetchDone(s, k)
    \/ \E s \in Sessions : Notify(s)
    \/ Disconnect("s1")
    \/ \E id \in 1..(nextId - 1) : DragStart("s2", id)
    \/ \E d \in DropColumns : Drop("s2", d)
    \/ \E k \in DOMAIN moves["s2"] : UpdateRun("s2", k)
    \/ \E k \in DOMAIN moves["s2"] : DropDone("s2", k)
    \/ \E f \in Forms : Submit("s1", f)
    \/ \E k \in DOMAIN adds["s1"] : InsertRun("s1", k)
    \/ \E k \in DOMAIN adds["s1"] : AddDone("s1", k)

SpecCut == InitRevert /\ [][NextCut]_vars

-----------------------------------------------------------------------------
(* The user of s1 submits the Composer's form again and again, and the      *)
(* store may fail a request.                                                *)

InitCompose ==
    /\ store = InitStore
    /\ nextId = Len(InitStore) + 1
    /\ log = <<>>
    /\ tasks = [s \in Sessions |-> StoreSelect(store)]
    /\ currentUser = [s \in Sessions |-> Identity(s)]
    /\ loading = [s \in Sessions |-> FALSE]
    /\ isSaving = [s \in Sessions |-> FALSE]
    /\ draggingTaskId = [s \in Sessions |-> NoTask]
    /\ mounted = [s \in Sessions |-> TRUE]
    /\ channel = [s \in Sessions |-> "joined"]
    /\ subs = [s \in Sessions |-> 1]
    /\ feed = [s \in Sessions |-> <<>>]
    /\ fetched = [s \in Sessions |-> 0]
    /\ loads = [s \in Sessions |-> <<>>]
    /\ moves = [s \in Sessions |-> <<>>]
    /\ dels = [s \in Sessions |-> <<>>]
    /\ adds = [s \in Sessions |-> <<>>]
    /\ opsLeft = [s \in Sessions |-> IF s = "s1" THEN MaxSubmits ELSE 0]
    /\ faultsLeft = MaxFaults
    /\ outcome = Quiet
    /\ ShellAtBoard

NextCompose ==
    \/ \E s \in Sessions, k \in 1..MaxLoads : QueryRun(s, k)
    \/ \E s \in Sessions, k \in 1..MaxLoads : FetchDone(s, k)
    \/ \E s \in Sessions : Notify(s)
    \/ \E f \in Forms : Submit("s1", f)
    \/ \E k \in DOMAIN adds["s1"] : InsertRun("s1", k)
    \/ \E k \in DOMAIN adds["s1"] : AddDone("s1", k)

SpecCompose == InitCompose /\ [][NextCompose]_vars

-----------------------------------------------------------------------------
(* The client module: getSupabaseClient and the two functions that reset it *)

\* a getSupabaseClient that makes a client at every call
ClientGetAlwaysCreates(inst, made, custom, throws) ==
    IF throws THEN [inst |-> inst, made |-> made, result |-> NoClient]
    ELSE [inst |-> made + 1, made |-> made + 1, result |-> made + 1]

\* getSupabaseClient(customUrl?, customKey?): the URL and key fall back to the
\* constants of the module, so neither is empty; createClient is called when
\* there is no instance or a custom URL was given, and if it throws null is
\* returned and the instance stays; else the instance is returned.  A client
\* is named by the number of the createClient call that made it.
ClientGet(inst, made, custom, throws) ==
    IF inst = NoClient \/ custom
    THEN IF throws
         THEN [inst |-> inst, made |-> made, result |-> NoClient]
         ELSE [inst |-> made + 1, made |-> made + 1, result |-> made + 1]
    ELSE [inst |-> inst, made |-> made, result |-> inst]

\* a call of getSupabaseClient from anywhere in the application; createClient
\* throws only for a URL it cannot parse, which the constant of the module is not
GetSupabaseClient(custom, throws) ==
    /\ Len(returned) < MaxCalls
    /\ throws => custom
    /\ LET r == ClientGet(supabaseInstance, created, custom, throws)
       IN  /\ supabaseInstance' = r.inst
           /\ created' = r.made
           /\ returned' = Append(returned, [op |-> IF custom THEN "custom" ELSE "get",
                                           inst |-> r.result])
    /\ UNCHANGED <<boardVars, shellVars>>

\* saveSupabaseCredentials(url, key): supabaseInstance = null
SaveSupabaseCredentials ==
    /\ Len(returned) < MaxCalls
    /\ supabaseInstance' = NoClient
    /\ returned' = Append(returned, [op |-> "save", inst |-> NoClient])
    /\ UNCHANGED <<created, boardVars, shellVars>>

\* clearSupabaseCredentials(): supabaseInstance = null
ClearSupabaseCredentials ==
    /\ Len(returned) < MaxCalls
    /\ supabaseInstance' = NoClient
    /\ returned' = Append(returned, [op |-> "clear", inst |-> NoClient])
    /\ UNCHANGED <<created, boardVars, shellVars>>

\* no board is open: Tasks is not mounted in any session
BoardClosed ==
    /\ store = InitStore
    /\ nextId = Len(InitStore) + 1
    /\ log = <<>>
    /\ tasks = [s \in Sessions |-> <<>>]
    /\ currentUser = [s \in Sessions |-> NoUser]
    /\ loading = [s \in Sessions |-> TRUE]
    /\ isSaving = [s \in Sessions |-> FALSE]
    /\ draggingTaskId = [s \in Sessions |-> NoTask]
    /\ mounted = [s \in Sessions |-> FALSE]
    /\ channel = [s \in Sessions |-> "closed"]
    /\ subs = [s \in Sessions |-> 0]
    /\ feed = [s \in Sessions |-> <<>>]
    /\ fetched = [s \in Sessions |-> 0]
    /\ loads = [s \in Sessions |-> <<>>]
    /\ moves = [s \in Sessions |-> <<>>]
    /\ dels = [s \in Sessions |-> <<>>]
    /\ adds = [s \in Sessions |-> <<>>]
    /\ opsLeft = [s \in Sessions |-> 0]
    /\ faultsLeft = 0
    /\ outcome = Quiet

\* the module was loaded: let supabaseInstance = null, and nothing was called
InitClient ==
    /\ BoardClosed
    /\ app = [currentView |-> "auth", isConnected |-> FALSE, session |-> NoUser,
              profile |-> NoUser, loading |-> TRUE]
    /\ authSession = NoUser
    /\ listeners = 0
    /\ pending = <<>>
    /\ shellLeft = 0
    /\ supabaseInstance = NoClient
    /\ created = 0
    /\ returned = <<>>

NextClient ==
    \/ \E custom \in BOOLEAN, throws \in BOOLEAN : GetSupabaseClient(custom, throws)
    \/ SaveSupabaseCredentials
    \/ ClearSupabaseCredentials

SpecClient == InitClient /\ [][NextClient]_vars

-----------------------------------------------------------------------------
(* The application shell: App of App.tsx in one browser.  What a handler    *)
(* does between two awaits is one step; its state updates show together.    *)

Users == {"U1", "U2"}

\* the views of the sidebar that the model visits
SidebarViews == {"dashboard", "tasks"}

\* what the select of fetchProfile can return
ProfileResults == {"row", "none", "error"}

\* the sidebar and the header: isConnected && session
SidebarRendered == ~app.loading /\ app.isConnected /\ app.session # NoUser

\* isConnected && currentView === 'auth' && !session && <Auth ... />
AuthRendered ==
    ~app.loading /\ app.isConnected /\ app.currentView = "auth" /\ app.session = NoUser

\* !isConnected && <Setup ... />
SetupRendered == ~app.loading /\ ~app.isConnected

\* isConnected && session && currentView === 'tasks' && <Tasks />, below the
\* early return of the spinner while loading
TasksRendered ==
    ~app.loading /\ app.isConnected /\ app.session # NoUser /\ app.currentView = "tasks"

\* fetchProfile after its select: setProfile(data) for a row; without a row
\* the user of auth.getUser(), if any, becomes the profile; on error nothing
ApplyProfile(prof, user, result) ==
    CASE result = "row" -> user
      [] result = "none" -> IF authSession # NoUser THEN authSession ELSE prof
      [] OTHER -> prof

\* every registered callback of onAuthStateChange calls fetchProfile(user)
RECURSIVE ProfileFetches(_, _)
ProfileFetches(n, user) ==
    IF n = 0 THEN <<>>
    ELSE <<[kind |-> "profile", user |-> user]>> \o ProfileFetches(n - 1, user)

\* checkConnection up to its first await: setLoading(true); the client exists
\* (its URL and key are constants), so setIsConnected(true) and getSession()
\* is awaited
CheckConnection(a) == [a EXCEPT !.loading = TRUE, !.isConnected = TRUE]

\* the Setup view connects: getSupabaseClient(url, key), getSession,
\* saveSupabaseCredentials, then onConnected() runs checkConnection
SetupConnect ==
    /\ SetupRendered
    /\ Len(pending) < MaxPending
    /\ app' = CheckConnection(app)
    /\ pending' = Append(pending, [kind |-> "getSession", user |-> NoUser])
    /\ supabaseInstance' = created + 2
    /\ created' = created + 2
    /\ returned' = <<>>
    /\ UNCHANGED <<authSession, listeners, shellLeft, boardVars>>

\* the Auth view signs the user in: the client has the session, every
\* callback of onAuthStateChange runs (setSession, fetchProfile), and
\* onAuthenticated() runs checkConnection
SignIn(u) ==
    /\ AuthRendered
    /\ shellLeft.logins > 0
    /\ Len(pending) + listeners < MaxPending
    /\ authSession' = u
    /\ app' = CheckConnection(IF listeners > 0 THEN [app EXCEPT !.session = u] ELSE app)
    /\ pending' = pending \o ProfileFetches(listeners, u)
                     \o <<[kind |-> "getSession", user |-> NoUser]>>
    /\ shellLeft' = [shellLeft EXCEPT !.logins = @ - 1]
    /\ UNCHANGED <<listeners, boardVars, clientVars>>

\* checkConnection after getSession: setSession(currentSession); with a
\* session fetchProfile is awaited, without one setCurrentView('auth'), the
\* callback is registered and setLoading(false); if getSession throws,
\* setIsConnected(false) and setLoading(false)
GetSessionDone(k, throws) ==
    /\ k \in DOMAIN pending
    /\ pending[k].kind = "getSession"
    /\ throws => shellLeft.faults > 0
    /\ shellLeft' = IF throws THEN [shellLeft EXCEPT !.faults = @ - 1] ELSE shellLeft
    /\ IF throws
       THEN /\ app' = [app EXCEPT !.isConnected = FALSE, !.loading = FALSE]
            /\ pending' = RemoveAt(pending, k)
            /\ UNCHANGED listeners
       ELSE IF authSession # NoUser
       THEN /\ app' = [app EXCEPT !.session = authSession]
            /\ pending' = [pending EXCEPT ![k] = [kind |-> "checkProfile", user |-> authSession]]
            /\ UNCHANGED listeners
       ELSE /\ app' = [app EXCEPT !.session = NoUser, !.currentView = "auth", !.loading = FALSE]
            /\ pending' = RemoveAt(pending, k)
            /\ listeners' = listeners + 1
    /\ UNCHANGED <<authSession, boardVars, clientVars>>

\* checkConnection after the fetchProfile it awaited: setCurrentView('dashboard'),
\* the callback is registered and setLoading(false)
CheckProfileDone(k, result) ==
    /\ k \in DOMAIN pending
    /\ pending[k].kind = "checkProfile"
    /\ app' = [app EXCEPT !.profile = ApplyProfile(@, pending[k].user, result),
                          !.currentView = "dashboard",
                          !.loading = FALSE]
    /\ listeners' = listeners + 1
    /\ pending' = RemoveAt(pending, k)
    /\ UNCHANGED <<authSession, shellLeft, boardVars, clientVars>>

\* a fetchProfile that the callback started returns
ProfileDone(k, result) ==
    /\ k \in DOMAIN pending
    /\ pending[k].kind = "profile"
    /\ app' = [app EXCEPT !.profile = ApplyProfile(@, pending[k].user, result)]
    /\ pending' = RemoveAt(pending, k)
    /\ UNCHANGED <<authSession, listeners, shellLeft, boardVars, clientVars>>

\* a SidebarItem is clicked: setCurrentView(id)
Navigate(v) ==
    /\ SidebarRendered
    /\ app.currentView # v
    /\ app' = [app EXCEPT !.currentView = v]
    /\ UNCHANGED <<authSession, listeners, pending, shellLeft, boardVars, clientVars>>

\* handleLogout up to its await: signOut() is sent
HandleLogout ==
    /\ SidebarRendered
    /\ Len(pending) < MaxPending
    /\ \A k \in DOMAIN pending : pending[k].kind # "signOut"
    /\ pending' = Append(pending, [kind |-> "signOut", user |-> NoUser])
    /\ UNCHANGED <<app, authSession, listeners, shellLeft, boardVars, clientVars>>

\* a handleLogout that leaves the view as it is
LogoutKeepsView(k) ==
    /\ k \in DOMAIN pending
    /\ pending[k].kind = "signOut"
    /\ authSession' = NoUser
    /\ app' = [app EXCEPT !.session = NoUser, !.profile = NoUser]
    /\ pending' = RemoveAt(pending, k)
    /\ UNCHANGED <<listeners, shellLeft, boardVars, clientVars>>

\* signOut returns: the client has no session, the callbacks ran for
\* SIGNED_OUT, and handleLogout goes on: setSession(null), setProfile(null),
\* setCurrentView('auth')
LogoutDone(k) ==
    /\ k \in DOMAIN pending
    /\ pending[k].kind = "signOut"
    /\ authSession' = NoUser
    /\ app' = [app EXCEPT !.session = NoUser, !.profile = NoUser, !.currentView = "auth"]
    /\ pending' = RemoveAt(pending, k)
    /\ UNCHANGED <<listeners, shellLeft, boardVars, clientVars>>

\* the client refreshed the token: the callbacks run with the session
\* (setSession, fetchProfile)
TokenRefreshed ==
    /\ shellLeft.events > 0
    /\ authSession # NoUser
    /\ listeners > 0
    /\ Len(pending) + listeners <= MaxPending
    /\ app' = [app EXCEPT !.session = authSession]
    /\ pending' = pending \o ProfileFetches(listeners, authSession)
    /\ shellLeft' = [shellLeft EXCEPT !.events = @ - 1]
    /\ UNCHANGED <<authSession, listeners, boardVars, clientVars>>

\* the session ends outside App (another tab signs out, the session expires):
\* the callbacks that are registered run with no session: setSession(null),
\* setProfile(null), setCurrentView('auth')
SignedOut ==
    /\ shellLeft.events > 0
    /\ authSession # NoUser
    /\ authSession' = NoUser
    /\ app' = IF listeners > 0
              THEN [app EXCEPT !.session = NoUser, !.profile = NoUser, !.currentView = "auth"]
              ELSE app
    /\ shellLeft' = [shellLeft EXCEPT !.events = @ - 1]
    /\ UNCHANGED <<listeners, pending, boardVars, clientVars>>

\* App was rendered and its effect called checkConnection(): the client was
\* made, getSession() is awaited; the client may hold a persisted session
InitShell ==
    /\ BoardClosed
    /\ app = [currentView |-> "auth", isConnected |-> TRUE, session |-> NoUser,
              profile |-> NoUser, loading |-> TRUE]
    /\ authSession \in {NoUser} \cup Users
    /\ listeners = 0
    /\ pending = <<[kind |-> "getSession", user |-> NoUser]>>
    /\ shellLeft = [events |-> MaxAuthEvents, logins |-> MaxLogins, faults |-> MaxShellFaults]
    /\ supabaseInstance = 1
    /\ created = 1
    /\ returned = <<>>

NextShell ==
    \/ SetupConnect
    \/ \E u \in Users : SignIn(u)
    \/ \E k \in 1..MaxPending, throws \in BOOLEAN : GetSessionDone(k, throws)
    \/ \E k \in 1..MaxPending, r \in ProfileResults : CheckProfileDone(k, r)
    \/ \E k \in 1..MaxPending, r \in ProfileResults : ProfileDone(k, r)
    \/ \E v \in SidebarViews : Navigate(v)
    \/ HandleLogout
    \/ \E k \in 1..MaxPending : LogoutDone(k)
    \/ TokenRefreshed
    \/ SignedOut

SpecShell == InitShell /\ [][NextShell]_vars

-----------------------------------------------------------------------------
(* Properties *)

\* the store and every board
AllRows == {store} \cup {tasks[s] : s \in Sessions}

\* the cards of a column: tasks.filter(t => t.department === dept.id)
Column(rows, dept) == SelectSeq(rows, LAMBDA r : r.department = dept)

\* the count in the head of a column: the length of that filter
Count(rows, dept) == Len(Column(rows, dept))

\* the row of task id in an array of rows
RowOf(rows, id) == rows[FindIndex(rows, id)]

\* C1: a delete attempted by a session on a task another user created is
\* rejected with the permission alert; no delete is sent, and the store and
\* every board stay as they were.
C1_DeleteByNonCreatorRejected ==
    [][\A s \in Sessions : \A i \in DOMAIN tasks[s] : \A c \in BOOLEAN :
          (DeleteTask(s, i, c) /\ tasks[s][i].user_id # Identity(s))
              => /\ outcome' = "PermissionError"
                 /\ dels' = dels
                 /\ store' = store
                 /\ tasks' = tasks]_vars

\* a session has just been refused the delete of a task of another user, which
\* is still in the store and on its board
C1_Witness ==
    /\ outcome = "PermissionError"
    /\ \E s \in Sessions : \E i \in DOMAIN tasks[s] :
          /\ tasks[s][i].user_id # Identity(s)
          /\ tasks[s][i].id \in Ids(store)
          /\ dels[s] = <<>>

\* C2: a drop of the dragged task on a column other than its local department
\* shows it there at once, sends exactly one update for its id whose patch
\* holds the department alone, and changes no other task, no other field and
\* nothing in the store.
C2_DropMovesOptimistically ==
    [][\A s \in Sessions : \A d \in DropColumns :
          LET id == draggingTaskId[s]
              i == FindIndex(tasks[s], id)
          IN  (Drop(s, d) /\ id # NoTask /\ i # 0 /\ tasks[s][i].department # d)
                  => /\ Len(tasks'[s]) = Len(tasks[s])
                     /\ tasks'[s][i].department = d
                     /\ \A f \in DOMAIN tasks[s][i] \ {"department"} :
                            tasks'[s][i][f] = tasks[s][i][f]
                     /\ \A j \in DOMAIN tasks[s] \ {i} : tasks'[s][j] = tasks[s][j]
                     /\ Len(moves'[s]) = Len(moves[s]) + 1
                     /\ SubSeq(moves'[s], 1, Len(moves[s])) = moves[s]
                     /\ moves'[s][Len(moves'[s])].id = id
                     /\ moves'[s][Len(moves'[s])].patch = [department |-> d]
                     /\ moves'[s][Len(moves'[s])].phase = "sent"
                     /\ \A t \in Sessions \ {s} : tasks'[t] = tasks[t] /\ moves'[t] = moves[t]
                     /\ store' = store]_vars

\* an update is on its way to the store while the board already shows the task
\* in the target column and the store still holds the old department
C2_Witness ==
    \E s \in Sessions : \E k \in DOMAIN moves[s] :
        /\ moves[s][k].phase = "sent"
        /\ moves[s][k].id \in Ids(tasks[s]) \cap Ids(store)
        /\ RowOf(tasks[s], moves[s][k].id).department = moves[s][k].dept
        /\ RowOf(store, moves[s][k].id).department # moves[s][k].dept
        /\ Len(tasks[s]) > 1

\* C3: a drop of the dragged task on the column of its local department sends
\* nothing and leaves the board, the drag state and the store as they were, so
\* that the same drop can be repeated with the same effect.
C3_DropOnSameColumnNoOp ==
    [][\A s \in Sessions : \A d \in DropColumns :
          LET id == draggingTaskId[s]
              i == FindIndex(tasks[s], id)
          IN  (Drop(s, d) /\ id # NoTask /\ i # 0 /\ tasks[s][i].department = d)
                  => UNCHANGED <<store, nextId, log, tasks, currentUser, loading, isSaving,
                                 draggingTaskId, mounted, fetched, channel, subs, feed, loads, moves,
                                 dels, adds>>]_vars

\* a drop on the task's own column has just returned early
C3_Witness ==
    /\ outcome = "same"
    /\ \E s \in Sessions :
          /\ draggingTaskId[s] \in Ids(tasks[s])
          /\ moves[s] = <<>>

\* C4: every row the store inserted for a Composer submission, and every copy
\* of it on a board, has the status todo and the user_id of the session that
\* submitted it, whatever the form held.
C4_ComposedRowsTodoAndOwned ==
    \A n \in DOMAIN log :
        log[n].op = "insert" =>
            \A rows \in {store} \cup {tasks[s] : s \in Sessions} :
                \A i \in DOMAIN rows :
                    rows[i].id = log[n].id =>
                        /\ rows[i].status = "todo"
                        /\ rows[i].user_id = Identity(log[n].s)

\* a composed row is in the store and on the board of the other session
C4_Witness ==
    \E n \in DOMAIN log : \E s \in Sessions :
        /\ log[n].op = "insert"
        /\ log[n].s # s
        /\ log[n].id \in Ids(store) \cap Ids(tasks[s])

\* C5: a submission with an empty title is refused at once with the
\* validation message: no insert is sent, no row is created and nothing of
\* the boards or the store changes.
C5_EmptyTitleRejected ==
    [][\A s \in Sessions : \A f \in Forms :
          (Submit(s, f) /\ f.title = "")
              => /\ outcome' = "ValidationError"
                 /\ UNCHANGED <<store, nextId, log, tasks, currentUser, loading, isSaving,
                                draggingTaskId, mounted, fetched, channel, subs, feed, loads, moves,
                                dels, adds>>]_vars

\* a submission has just been refused for its empty title while the session
\* could still have sent one
C5_Witness ==
    /\ outcome = "ValidationError"
    /\ \E s \in Sessions : opsLeft[s] > 0 /\ ~isSaving[s] /\ adds[s] = <<>>

\* the last write to task id among the first n commits of the store (0: none)
LastWrite(id, n) ==
    LET W == {j \in 1..n : log[j].id = id}
    IN  IF W = {} THEN 0 ELSE CHOOSE j \in W : \A i \in W : i <= j

\* C6: a reload whose query ran after the store committed a move of a task,
\* and before any later write to that task, returns the task in the move's
\* department, and the board shows it there when the reload completes.
C6_ReloadShowsCommittedMove ==
    [][\A s \in Sessions : \A k \in DOMAIN loads[s] :
          (FetchDone(s, k) /\ ~loads[s][k].err)
              => \A id \in 1..(nextId - 1) :
                     LET w == LastWrite(id, loads[s][k].at)
                     IN  (w # 0 /\ log[w].op = "update")
                             => /\ id \in Ids(loads[s][k].data) \cap Ids(tasks'[s])
                                /\ RowOf(loads[s][k].data, id).department = log[w].dept
                                /\ RowOf(tasks'[s], id).department = log[w].dept]_vars

\* the board of a session that never dropped anything shows a task where the
\* one committed move of the other session put it, away from where it started
C6_Witness ==
    \E s \in Sessions :
        /\ Len(log) = 1
        /\ log[1].op = "update"
        /\ log[1].s # s
        /\ opsLeft[s] = MaxRaceOps
        /\ moves[s] = <<>>
        /\ loads[s] = <<>>
        /\ log[1].id \in Ids(tasks[s])
        /\ RowOf(tasks[s], log[1].id).department = log[1].dept
        /\ RowOf(InitStore, log[1].id).department # log[1].dept

\* nothing is in flight: no update, no notification, no reload
Quiescent ==
    \A s \in Sessions : moves[s] = <<>> /\ feed[s] = <<>> /\ loads[s] = <<>>

\* C7: when two sessions moved the same task to different departments, the
\* second update being on its way when the store committed the first, and
\* nothing else was written, then once every update, notification and reload
\* has completed the store holds the department committed last and both
\* boards show that department.
C7_RacingMovesConverge ==
    (/\ Quiescent
     /\ Len(log) = 2
     /\ log[1].op = "update" /\ log[2].op = "update"
     /\ log[1].id = log[2].id
     /\ log[1].s # log[2].s
     /\ log[1].dept # log[2].dept
     /\ log[1].raced)
        => /\ RowOf(store, log[2].id).department = log[2].dept
           /\ \A s \in Sessions : RowOf(tasks[s], log[2].id).department = log[2].dept

\* C8: every notification a subscribed session receives, of an insert, an
\* update or a delete alike, calls fetchTasks once, which asks the store for
\* the whole collection; every commit is announced to every subscribed
\* session, so each commit is followed in each of them by a reload of its own.
C8_EveryChangeReloads ==
    /\ [][\A s \in Sessions :
            /\ Notify(s) => /\ loads'[s] = Append(loads[s], [phase |-> "query", data |-> <<>>,
                                                            err |-> FALSE, at |-> 0,
                                                            first |-> FALSE])
                            /\ fetched'[s] = fetched[s] + 1
            /\ \A k \in DOMAIN loads[s] :
                  (QueryRun(s, k) /\ ~loads'[s][k].err)
                      => loads'[s][k].data = store /\ loads'[s][k].at = Len(log)]_vars
    /\ [](\A s \in Sessions :
            channel[s] = "joined" => fetched[s] + Len(feed[s]) = Len(log))
    /\ \A s \in Sessions : \A n \in 1..MaxOps :
            (Len(log) >= n) ~> (fetched[s] >= n)

\* a session reloads for the notification of a move or a delete that the
\* other session committed
C8_Witness ==
    \E s \in Sessions :
        /\ Len(log) = 1
        /\ log[1].op \in {"update", "delete"}
        /\ log[1].s # s
        /\ fetched[s] = 1
        /\ feed[s] = <<>>
        /\ Len(loads[s]) = 1
        /\ loads[s][1].phase = "query"

\* C9: when a load completes without error, the board of the session is
\* exactly the rows the store returned: nothing the board held before, no
\* value and no task, survives unless the snapshot holds it.
C9_ReloadReplacesBoard ==
    [][\A s \in Sessions : \A k \in DOMAIN loads[s] :
          (FetchDone(s, k) /\ ~loads[s][k].err)
              => /\ tasks'[s] = loads[s][k].data
                 /\ \A t \in Sessions \ {s} : tasks'[t] = tasks[t]]_vars

\* a reload has taken from a board a task that the other session deleted, and
\* the board now equals the store
C9_Witness ==
    \E s \in Sessions :
        /\ Len(log) = 1
        /\ log[1].op = "delete"
        /\ log[1].s # s
        /\ fetched[s] = 1
        /\ loads[s] = <<>>
        /\ dels[s] = <<>>
        /\ log[1].id \notin Ids(tasks[s])
        /\ tasks[s] = store
        /\ tasks[s] # <<>>

\* C10: a reload that completes while the session's own update of a task is
\* still on its way to the store, and whose snapshot holds the task in another
\* department than the optimistic one the board shows, puts the task back in
\* the snapshot's department and leaves the update on its way; such a reload
\* is reachable.
C10_ReloadRevertsOptimisticMove ==
    [][\A s \in Sessions : \A k \in DOMAIN loads[s] : \A j \in DOMAIN moves[s] :
          LET m == moves[s][j]
              data == loads[s][k].data
          IN  (/\ FetchDone(s, k)
               /\ ~loads[s][k].err
               /\ m.phase = "sent"
               /\ m.id \in Ids(tasks[s]) \cap Ids(data)
               /\ RowOf(tasks[s], m.id).department = m.dept
               /\ RowOf(data, m.id).department # m.dept)
                  => /\ RowOf(tasks'[s], m.id).department = RowOf(data, m.id).department
                     /\ RowOf(tasks'[s], m.id).department # m.dept
                     /\ moves'[s] = moves[s]
                     /\ store' = store]_vars

\* the board shows the dragged task back in the department the store holds,
\* not in the column it was dropped on, while the update of the drop is still
\* on its way and no reload is left to complete
C10_Witness ==
    \E s \in Sessions : \E j \in DOMAIN moves[s] :
        LET m == moves[s][j]
        IN  /\ m.phase = "sent"
            /\ draggingTaskId[s] = m.id
            /\ m.id \in Ids(tasks[s]) \cap Ids(store)
            /\ RowOf(tasks[s], m.id).department # m.dept
            /\ RowOf(tasks[s], m.id).department = RowOf(store, m.id).department
            /\ RowOf(tasks[s], m.id).department = RowOf(InitStore, m.id).department
            /\ loads[s] = <<>>

\* C11: of the reloads a session has in flight, any answered one may return
\* next, whatever the order of the calls; the board then is that answer's
\* snapshot, the others stay in flight as they were, and so the board left by
\* the last to return is its snapshot, also when an earlier return held a
\* newer one. A drop made meanwhile shows on the board until the next return.
C11_LastCompletionWins ==
    /\ [](\A s \in Sessions : \A k \in DOMAIN loads[s] :
            loads[s][k].phase = "resp" => ENABLED FetchDone(s, k))
    /\ [][\A s \in Sessions : \A k \in DOMAIN loads[s] :
            (FetchDone(s, k) /\ ~loads[s][k].err)
                => /\ tasks'[s] = loads[s][k].data
                   /\ Len(loads'[s]) = Len(loads[s]) - 1
                   /\ \A j \in DOMAIN loads'[s] :
                          loads'[s][j] = loads[s][IF j < k THEN j ELSE j + 1]]_vars
    /\ [][\A s \in Sessions : \A d \in DropColumns :
            (Drop(s, d) /\ moves'[s] # moves[s] /\ draggingTaskId[s] \in Ids(tasks[s]))
                => /\ RowOf(tasks'[s], draggingTaskId[s]).department = d
                   /\ loads'[s] = loads[s]]_vars

\* both moves are committed and nothing is in flight, and a board shows the
\* department of the first commit: the answer that returned last was taken
\* before the second commit, the reload made for the second returned before it
C11_Witness ==
    \E s \in Sessions :
        /\ Quiescent
        /\ Len(log) = 2
        /\ log[1].id = log[2].id
        /\ log[1].dept # log[2].dept
        /\ fetched[s] = 2
        /\ RowOf(store, log[2].id).department = log[2].dept
        /\ RowOf(tasks[s], log[1].id).department = log[1].dept

\* C12: a drop of the dragged task on a column other than its department
\* leaves no task remembered as being dragged at once, before the update it
\* sent has returned.
C12_DropIdleAtOnce ==
    [][\A s \in Sessions : \A d \in DropColumns :
          (Drop(s, d) /\ moves'[s] # moves[s]) => draggingTaskId'[s] = NoTask]_vars

\* C13: a drop of the dragged task on the column of its department leaves no
\* task remembered as being dragged.
C13_SameColumnDropIdle ==
    [][\A s \in Sessions : \A d \in DropColumns :
          (/\ Drop(s, d)
           /\ draggingTaskId[s] \in Ids(tasks[s])
           /\ RowOf(tasks[s], draggingTaskId[s]).department = d)
              => draggingTaskId'[s] = NoTask]_vars

\* C14: an update of a move that the store fails changes neither the store
\* nor any board, and handleDrop then neither puts the card back nor reloads:
\* the board keeps the target department and the store the old one, and the
\* board of a session changes only when a reload of it returns or by its own
\* drop or delete.
C14_FailedMoveNotRolledBack ==
    /\ [][\A s \in Sessions : \A k \in DOMAIN moves[s] :
            /\ (UpdateRun(s, k) /\ moves'[s][k].phase = "error")
                  => UNCHANGED <<store, tasks, log, feed, loads>>
            /\ (DropDone(s, k) /\ moves[s][k].phase = "error")
                  => UNCHANGED <<store, tasks, log, feed, loads>>]_vars
    /\ [][\A s \in Sessions :
            tasks'[s] # tasks[s]
                => \/ \E k \in DOMAIN loads[s] : FetchDone(s, k)
                   \/ \E d \in DropColumns : Drop(s, d)
                   \/ \E k \in DOMAIN dels[s] : DeleteDone(s, k)]_vars

\* the update of a move failed and handleDrop has returned: the board shows
\* the task in the column it was dropped on and the store in its old one,
\* with nothing in flight
C14_Witness ==
    \E s \in Sessions : \E id \in Ids(store) :
        /\ faultsLeft = 0
        /\ opsLeft[s] = 0
        /\ log = <<>>
        /\ store = InitStore
        /\ Quiescent
        /\ dels[s] = <<>> /\ adds[s] = <<>>
        /\ draggingTaskId[s] = NoTask
        /\ id \in Ids(tasks[s])
        /\ RowOf(tasks[s], id).department # RowOf(store, id).department

\* C15: when the store has failed an insert, an update or a delete, the
\* handler that sent it tells the user of the failure when it resumes.
C15_EveryFailureSurfaced ==
    [][\A s \in Sessions :
          /\ \A k \in DOMAIN adds[s] :
                (AddDone(s, k) /\ adds[s][k].phase = "error") => outcome' = "PersistenceError"
          /\ \A k \in DOMAIN moves[s] :
                (DropDone(s, k) /\ moves[s][k].phase = "error") => outcome' = "PersistenceError"
          /\ \A k \in DOMAIN dels[s] :
                (DeleteDone(s, k) /\ dels[s][k].phase = "error")
                    => outcome' = "PersistenceError"]_vars

\* C16: an insert of the Composer that the store fails creates no row and
\* announces nothing, and handleAddTask then shows the error, calls no
\* fetchTasks and leaves every board as it was; the form can be sent again.
C16_FailedInsertNoPartialCommit ==
    [][\A s \in Sessions : \A k \in DOMAIN adds[s] :
          /\ (InsertRun(s, k) /\ adds'[s][k].phase = "error")
                => UNCHANGED <<store, nextId, log, feed, tasks, loads>>
          /\ (AddDone(s, k) /\ adds[s][k].phase = "error")
                => /\ outcome' = "PersistenceError"
                   /\ isSaving'[s] = FALSE
                   /\ UNCHANGED <<store, nextId, log, feed, tasks, loads>>]_vars

\* the error of a failed insert has just been shown: the store holds the rows
\* it held, no reload was started and the board is as it was
C16_Witness ==
    \E s \in Sessions :
        /\ outcome = "PersistenceError"
        /\ opsLeft[s] = 0
        /\ adds[s] = <<>>
        /\ ~isSaving[s]
        /\ store = InitStore
        /\ nextId = Len(InitStore) + 1
        /\ loads[s] = <<>>
        /\ fetched[s] = 0
        /\ tasks[s] = InitStore

\* C17: the update of a move whose task was deleted meanwhile matches no row:
\* it returns without error, writes and announces nothing, and a deleted row
\* is never in the store again; handleDrop then clears the dragged id and the
\* cards on the board can be dragged as before; a reload of the session whose
\* select ran after the delete leaves the task off its board.
C17_MoveOfDeletedTaskBenign ==
    /\ [][\A s \in Sessions :
            /\ \A k \in DOMAIN moves[s] :
                  /\ (UpdateRun(s, k) /\ moves[s][k].id \notin Ids(store))
                        => /\ moves'[s][k].phase = "ok"
                           /\ UNCHANGED <<store, log, feed, tasks>>
                  /\ DropDone(s, k) => draggingTaskId'[s] = NoTask /\ outcome' = Quiet
            /\ \A k \in DOMAIN loads[s] : \A id \in 1..(nextId - 1) :
                  LET w == LastWrite(id, loads[s][k].at)
                  IN  (FetchDone(s, k) /\ ~loads[s][k].err /\ w # 0 /\ log[w].op = "delete")
                          => id \notin Ids(tasks'[s])]_vars
    /\ [](\A n \in DOMAIN log : log[n].op = "delete" => log[n].id \notin Ids(store))
    /\ [](\A s \in Sessions : \A id \in Ids(tasks[s]) : ENABLED DragStart(s, id))

\* the creator's delete of a task was committed, then the update of another
\* session's drop of that task ran and returned without error, and that
\* session's reload has taken the task off its board
C17_Witness ==
    \E s \in Sessions : \E k \in DOMAIN moves[s] :
        /\ Len(log) = 1
        /\ log[1].op = "delete"
        /\ log[1].s # s
        /\ moves[s][k].id = log[1].id
        /\ moves[s][k].phase = "ok"
        /\ draggingTaskId[s] = log[1].id
        /\ log[1].id \notin Ids(store)
        /\ fetched[s] = 1
        /\ loads[s] = <<>>
        /\ log[1].id \notin Ids(tasks[s])

\* C18: a mounted board holds exactly one channel and a board that is gone
\* holds none; while the board is gone its channel is closed, no notification
\* is on its way to it and no call of fetchTasks is made or in flight, so
\* every notification that calls fetchTasks does so in a mounted board.
C18_OneSubscriptionUntilTeardown ==
    /\ [](\A s \in Sessions :
            /\ subs[s] = IF mounted[s] THEN 1 ELSE 0
            /\ mounted[s] <=> channel[s] # "closed"
            /\ ~mounted[s] => feed[s] = <<>> /\ loads[s] = <<>>)
    /\ [][\A s \in Sessions :
            /\ Notify(s) => mounted[s]
            /\ (~mounted[s] /\ ~mounted'[s])
                  => /\ fetched'[s] = fetched[s]
                     /\ loads'[s] = loads[s]
                     /\ tasks'[s] = tasks[s]]_vars

\* the store committed a change after the board was closed: nothing was
\* announced to it and it made no call
C18_Witness ==
    \E s \in Sessions :
        /\ ~mounted[s]
        /\ Len(log) = 1
        /\ fetched[s] = 0
        /\ feed[s] = <<>>
        /\ loads[s] = <<>>
        /\ \E t \in Sessions \ {s} : fetched[t] = 1

\* C19: what a drop on another column does is fixed by the board, the dragged
\* task and the column alone, for the creator of the task and for any other
\* user alike: whenever a dragged card is dropped where it can be sent, the
\* card moves and one update is sent, and the store commits the update of
\* either; a delete is sent only by the creator.
C19_MoveOpenToEveryUser ==
    /\ [](\A s \in Sessions : \A d \in DropColumns :
            LET id == draggingTaskId[s]
            IN  (/\ id \in Ids(tasks[s])
                 /\ RowOf(tasks[s], id).department # d
                 /\ opsLeft[s] > 0)
                    => ENABLED (Drop(s, d) /\ moves'[s] # moves[s]))
    /\ [][\A s \in Sessions :
            /\ \A d \in DropColumns :
                  LET id == draggingTaskId[s]
                  IN  (/\ Drop(s, d)
                       /\ id \in Ids(tasks[s])
                       /\ RowOf(tasks[s], id).department # d)
                          => /\ tasks'[s] = ApplyMove(tasks[s], id, d)
                             /\ moves'[s] = Append(moves[s],
                                                   [id |-> id, dept |-> d, phase |-> "sent",
                                                    patch |-> [department |-> d]])
                             /\ outcome' = Quiet
            /\ \A k \in DOMAIN moves[s] :
                  (UpdateRun(s, k) /\ moves'[s][k].phase = "ok"
                                   /\ moves[s][k].id \in Ids(store))
                      => RowOf(store', moves[s][k].id).department = moves[s][k].dept
            /\ \A i \in DOMAIN tasks[s] : \A c \in BOOLEAN :
                  (DeleteTask(s, i, c) /\ dels'[s] # dels[s])
                      => tasks[s][i].user_id = currentUser[s]]_vars

\* the store holds a task in the column where a user who did not create it
\* dropped it
C19_Witness ==
    \E n \in DOMAIN log :
        /\ log[n].op = "update"
        /\ log[n].id \in Ids(store)
        /\ RowOf(store, log[n].id).user_id # Identity(log[n].s)
        /\ RowOf(store, log[n].id).department = log[n].dept
        /\ RowOf(InitStore, log[n].id).department # log[n].dept

\* C20: a row leaves the store only in the step in which the store runs a
\* delete for its id that was sent by the session of the user who created it;
\* and a delete is sent only after the confirm dialog was accepted, by a
\* session whose current user is the creator of the task.
C20_OnlyCreatorDeleteRemovesRow ==
    /\ [][\A id \in Ids(store) :
            id \notin Ids(store')
                => \E s \in Sessions : \E k \in DOMAIN dels[s] :
                       /\ DeleteRun(s, k)
                       /\ dels[s][k].id = id
                       /\ RowOf(store, id).user_id = Identity(s)
                       /\ store' = StoreDelete(store, id)]_vars
    /\ [][\A s \in Sessions : \A i \in DOMAIN tasks[s] : \A c \in BOOLEAN :
            (DeleteTask(s, i, c) /\ dels'[s] # dels[s])
                => /\ c
                   /\ currentUser[s] = Identity(s)
                   /\ tasks[s][i].user_id = Identity(s)
                   /\ dels'[s] = Append(dels[s], [id |-> tasks[s][i].id, phase |-> "sent"])]_vars

\* a row is gone from the store, deleted by the session of its creator, and
\* the row of the other user is still there
C20_Witness ==
    \E n \in DOMAIN log :
        /\ log[n].op = "delete"
        /\ log[n].id \notin Ids(store)
        /\ RowOf(InitStore, log[n].id).user_id = Identity(log[n].s)
        /\ Len(store) = Len(InitStore) - 1

\* C21: in the store and on every board, the user_id of a task is the user
\* who created it: the one the store held it for at the start, or the user of
\* the session whose Composer inserted it; no move rewrites it.
C21_CreatorNeverChanges ==
    \A rows \in AllRows : \A i \in DOMAIN rows :
        IF rows[i].id \in Ids(InitStore)
        THEN rows[i].user_id = RowOf(InitStore, rows[i].id).user_id
        ELSE \E n \in DOMAIN log :
                 /\ log[n].op = "insert"
                 /\ log[n].id = rows[i].id
                 /\ rows[i].user_id = Identity(log[n].s)

\* the board of a session shows, after a reload, a task that a user who did
\* not create it moved, still with the user_id of its creator
C21_Witness ==
    \E n \in DOMAIN log : \E s \in Sessions :
        /\ log[n].op = "update"
        /\ fetched[s] = 1
        /\ loads[s] = <<>>
        /\ log[n].id \in Ids(tasks[s])
        /\ RowOf(tasks[s], log[n].id).department = log[n].dept
        /\ RowOf(tasks[s], log[n].id).department # RowOf(InitStore, log[n].id).department
        /\ RowOf(tasks[s], log[n].id).user_id # Identity(log[n].s)

\* C22: in the store and on every board, the department of every task is one
\* of the five of DEPARTMENTS and its priority one of low, medium and high.
C22_DepartmentAndPriorityKnown ==
    \A rows \in AllRows : \A i \in DOMAIN rows :
        /\ rows[i].department \in {"planning", "cutting", "stitching", "washing", "finishing"}
        /\ rows[i].priority \in {"low", "medium", "high"}

\* the Composer of s1 wrote a task with the last option of each select, and
\* the board of s2 shows it after a reload
C22_Witness ==
    \E i \in DOMAIN store : \E j \in DOMAIN tasks["s2"] :
        /\ store[i].id \notin Ids(InitStore)
        /\ store[i].department = "finishing"
        /\ store[i].priority = "low"
        /\ tasks["s2"][j] = store[i]

\* C23: on every board each task id occurs once, each task is among the
\* cards of exactly one of the five columns, and the five counts add up to the
\* number of tasks of the board.
C23_OneColumnPerTask ==
    \A s \in Sessions :
        /\ \A i, j \in DOMAIN tasks[s] : tasks[s][i].id = tasks[s][j].id => i = j
        /\ \A i \in DOMAIN tasks[s] :
              Cardinality({c \in DOMAIN DEPARTMENTS :
                              \E j \in DOMAIN Column(tasks[s], DEPARTMENTS[c]) :
                                  Column(tasks[s], DEPARTMENTS[c])[j] = tasks[s][i]}) = 1
        /\ Count(tasks[s], DEPARTMENTS[1]) + Count(tasks[s], DEPARTMENTS[2])
             + Count(tasks[s], DEPARTMENTS[3]) + Count(tasks[s], DEPARTMENTS[4])
             + Count(tasks[s], DEPARTMENTS[5]) = Len(tasks[s])

\* a card was dropped on another column, where a card already was: that column
\* counts two, the column it left none
C23_Witness ==
    \E s \in Sessions : \E k \in DOMAIN moves[s] :
        /\ moves[s][k].id \in Ids(tasks[s])
        /\ Count(tasks[s], moves[s][k].dept) = 2
        /\ Count(tasks[s], RowOf(InitStore, moves[s][k].id).department) = 0
        /\ Len(tasks[s]) = 2

\* C24: in the store and on every board, a task the store held at the start
\* has the status it had then, and a task the Composer inserted has the status
\* todo: no drop, delete, load or submission changes a status.
C24_StatusNeverMutated ==
    \A rows \in AllRows : \A i \in DOMAIN rows :
        rows[i].status = IF rows[i].id \in Ids(InitStore)
                         THEN RowOf(InitStore, rows[i].id).status
                         ELSE "todo"

\* a moved task is in its new column in the store and on the board of the
\* session that dropped it, with the status it had
C24_Witness ==
    \E n \in DOMAIN log :
        /\ log[n].op = "update"
        /\ moves[log[n].s] = <<>>
        /\ log[n].id \in Ids(store) \cap Ids(tasks[log[n].s])
        /\ RowOf(store, log[n].id).department # RowOf(InitStore, log[n].id).department
        /\ RowOf(tasks[log[n].s], log[n].id).department = RowOf(store, log[n].id).department
        /\ RowOf(tasks[log[n].s], log[n].id).status = RowOf(InitStore, log[n].id).status

\* C25: when no request fails and the insert is the only change made (no
\* other row was written and no move of s1 is in flight), once the
\* handleAddTask of s1 (user U1) has returned from the committed insert and
\* no load of s1 is in flight, the board of s1 shows the new task in the
\* column of the department chosen in the form, and the count of that column
\* is one more than before the submission; this holds whether or not the
\* change feed has told s1 about the insert, because handleAddTask starts the
\* load itself.
C25_CreatorReloadsOnItsOwn ==
    \A n \in DOMAIN log :
        (/\ log[n].op = "insert"
         /\ log[n].s = "s1"
         /\ Len(log) = 1
         /\ moves["s1"] = <<>>
         /\ adds["s1"] = <<>>
         /\ loads["s1"] = <<>>)
        => /\ log[n].id \in Ids(tasks["s1"])
           /\ RowOf(tasks["s1"], log[n].id).department = log[n].dept
           /\ RowOf(tasks["s1"], log[n].id).user_id = "U1"
           /\ \E j \in DOMAIN Column(tasks["s1"], log[n].dept) :
                 Column(tasks["s1"], log[n].dept)[j].id = log[n].id
           /\ Count(tasks["s1"], log[n].dept) = Count(InitStore, log[n].dept) + 1

\* U1 composed "Cut fabric panel A" for planning; the board of s1 shows it
\* there and counts two, while the notification of the insert still waits in
\* the feed of s1
C25_Witness ==
    \E n \in DOMAIN log :
        /\ log[n].op = "insert"
        /\ log[n].s = "s1"
        /\ log[n].dept = "planning"
        /\ adds["s1"] = <<>>
        /\ loads["s1"] = <<>>
        /\ fetched["s1"] = 0
        /\ feed["s1"] # <<>>
        /\ log[n].id \in Ids(tasks["s1"])
        /\ RowOf(tasks["s1"], log[n].id).title = "Cut fabric panel A"
        /\ Count(tasks["s1"], "planning") = 2

\* C26: dragging a card makes it the dragged task of the session and changes
\* nothing else; a dragover on a column changes neither the dragged task, nor
\* any board, nor the store, and sends nothing: no update, delete, insert or
\* load is started.
C26_DragStartSelectsDragOverIdle ==
    /\ [][\A s \in Sessions : \A id \in 1..(nextId - 1) :
            DragStart(s, id) =>
                /\ draggingTaskId' = [draggingTaskId EXCEPT ![s] = id]
                /\ UNCHANGED <<store, log, tasks, feed, loads, moves, dels, adds>>]_vars
    /\ [][\A s \in Sessions : \A d \in DropColumns :
            DragOver(s, d) =>
                UNCHANGED <<draggingTaskId, store, log, tasks, feed, loads, moves, dels,
                            adds, isSaving, loading>>]_vars

\* a card is being dragged over a column other than its own: the drop is
\* offered, the card is where it was and nothing was sent
C26_Witness ==
    \E s \in Sessions :
        /\ outcome = "droppable"
        /\ draggingTaskId[s] \in Ids(tasks[s])
        /\ tasks[s] = StoreSelect(InitStore)
        /\ store = InitStore
        /\ moves[s] = <<>>
        /\ opsLeft[s] > 0

C28_FailedDeleteKeepsCard ==
    [][\A s \in Sessions : \A k \in DOMAIN dels[s] :
          (DeleteDone(s, k) /\ dels[s][k].phase = "error")
              => /\ tasks'[s] = tasks[s]
                 /\ (dels[s][k].id \in Ids(store) /\ dels[s][k].id \in Ids(tasks[s]))
                        => dels[s][k].id \in Ids(tasks'[s])]_vars

\* C29: when the update of an earlier drop returns while the session is
\* dragging another task, the session goes on dragging that task: the return
\* of the update does not clear it (so that a drop of it on another column
\* can still move it).
C29_NewerDragSurvivesCompletion ==
    [][\A s \in Sessions : \A k \in DOMAIN moves[s] :
          (/\ DropDone(s, k)
           /\ draggingTaskId[s] # NoTask
           /\ draggingTaskId[s] # moves[s][k].id)
              => draggingTaskId'[s] = draggingTaskId[s]]_vars

\* C30: when the select of a fetchTasks call failed, the return of the call
\* leaves the board of the session, and every other board, exactly as it was:
\* the same rows in the same order.
C30_FailedLoadKeepsBoard ==
    [][\A s \in Sessions : \A k \in DOMAIN loads[s] :
          (FetchDone(s, k) /\ loads[s][k].err)
              => /\ tasks' = tasks
                 /\ Len(tasks'[s]) = Len(tasks[s])
                 /\ loading' = loading]_vars

\* another session changed the store, the only load of this session has
\* returned, and its board still has the two rows it had: the load failed
C30_Witness ==
    \E s \in Sessions :
        /\ Len(log) = 1
        /\ log[1].s # s
        /\ store # InitStore
        /\ fetched[s] = 1
        /\ loads[s] = <<>>
        /\ feed[s] = <<>>
        /\ moves[s] = <<>> /\ dels[s] = <<>> /\ adds[s] = <<>>
        /\ faultsLeft = 0
        /\ tasks[s] = StoreSelect(InitStore)

\* C31: a drop on any column while the session drags no task changes no
\* board, leaves the session dragging nothing, and sends nothing: the store,
\* the updates, deletes, inserts and loads in flight stay as they were.
C31_DropWhileIdleNoOp ==
    [][\A s \in Sessions : \A d \in DropColumns :
          (Drop(s, d) /\ draggingTaskId[s] = NoTask)
              => /\ draggingTaskId'[s] = NoTask
                 /\ UNCHANGED <<tasks, store, log, moves, dels, adds, loads, feed, opsLeft>>]_vars

\* a column received a drop while no session was dragging: the handler
\* returned at once, the boards are as loaded and nothing is in flight
C31_Witness ==
    /\ outcome = "idle"
    /\ \A s \in Sessions :
          /\ draggingTaskId[s] = NoTask
          /\ tasks[s] = StoreSelect(store)
          /\ moves[s] = <<>>
    /\ \E s \in Sessions : opsLeft[s] > 0

\* C32: a session has at most one submission of the Composer in flight, and
\* isSaving is set exactly while it is: it is false again once handleAddTask
\* has finished, whether the insert was committed or failed; the rows a
\* session inserted are never more than the submissions it made.
C32_OneSubmissionInFlight ==
    /\ \A s \in Sessions :
          /\ Len(adds[s]) <= 1
          /\ isSaving[s] <=> adds[s] # <<>>
    /\ Cardinality({n \in DOMAIN log : log[n].op = "insert" /\ log[n].s = "s1"})
          <= MaxSubmits - opsLeft["s1"]
    /\ Len(store) - Len(InitStore) <= MaxSubmits - opsLeft["s1"]

\* two submissions of s1 have finished one after the other, one committed and
\* one failed, and the button is enabled again
C32_Witness ==
    /\ MaxSubmits - opsLeft["s1"] >= 2
    /\ adds["s1"] = <<>>
    /\ ~isSaving["s1"]
    /\ Len(log) = 1
    /\ log[1].op = "insert"
    /\ faultsLeft < MaxFaults
    /\ Len(store) = Len(InitStore) + 1

\* C35: of the calls made on the client module, a call of getSupabaseClient()
\* without arguments returns the client that the call before it returned,
\* and makes none, whenever that call was a getSupabaseClient that returned a
\* client; a client is made only when there is none (at the first call or
\* after saveSupabaseCredentials or clearSupabaseCredentials) or for a custom
\* URL, so the clients made are never more than one plus the resets and the
\* calls with a custom URL.
C35_ClientIsSingleton ==
    /\ \A i \in DOMAIN returned : \A j \in DOMAIN returned :
          (/\ i < j
           /\ returned[i].op \in {"get", "custom"}
           /\ returned[i].inst # NoClient
           /\ \A m \in (i + 1)..j : returned[m].op = "get")
              => returned[j].inst = returned[i].inst
    /\ \A j \in DOMAIN returned : returned[j].op = "get" => returned[j].inst # NoClient
    /\ created <= 1 + Cardinality({m \in DOMAIN returned :
                                      returned[m].op \in {"save", "clear", "custom"}})
    /\ supabaseInstance \in {NoClient, created}

\* three calls without arguments in a row returned the one client that was
\* made, and after a reset the next call returned a new one
C35_Witness ==
    /\ Len(returned) = 4
    /\ returned[1].op = "get" /\ returned[2].op = "get"
    /\ returned[1].inst = 1 /\ returned[2].inst = 1
    /\ returned[3].op = "clear"
    /\ returned[4].op = "get" /\ returned[4].inst = 2
    /\ created = 2

\* C33: in App, whenever there is no session the profile is null; a
\* fetchProfile that returns after the logout or after the signed-out event
\* sets no profile.
C33_NoProfileWithoutSession ==
    app.session = NoUser => app.profile = NoUser

====
